---- MODULE Spec2Model ----
(***************************************************************************)
(* Model of bevy_symbios: LSystemMeshBuilder (src/src/mesher.rs),           *)
(* ColliderGenerator (src/src/collider.rs), the OBJ / GLB export functions *)
(* (src/src/export.rs) and the material editor (src/src/ui.rs).            *)
(*                                                                         *)
(* Numbers.  The f32 inputs (positions, radii, min_radius) are given as    *)
(* integers in units of 1/PosScale = 0.0001; n units stand for the f32     *)
(* nearest to n / 10000.  Where rounding decides what the code does, f32   *)
(* is computed bit for bit (section `f32 arithmetic`): the distance test   *)
(* of the two point filters, the average radius, length, midpoint, the two *)
(* thresholds and the shape decision of the colliders, and the emissive    *)
(* factors of the GLB export.  The rings of the mesh builder are computed  *)
(* on the integers: U and V texture coordinates are exact rationals        *)
(* <<num, den>>, TAU is the rational TauNum/TauDen = 710/113 (2 * 355/113),*)
(* uv_scale is an integer, and the inputs are drawn from sets on which the *)
(* f32 results are these exact values up to rounding: points on the Y axis *)
(* with even coordinates, even radii.                                      *)
(***************************************************************************)
EXTENDS Integers, Sequences, FiniteSets, TLC

VARIABLES
    skeleton,     \* the input Skeleton: a sequence of strands of SkeletonPoint
    resolution,   \* LSystemMeshBuilder.resolution
    buckets,      \* LSystemMeshBuilder.buckets; after build, the returned map
    built,        \* TRUE once build has consumed the builder
    ring_log,     \* history: one entry per add_ring call of the build
    seg_log,      \* history: one entry per connect_rings call of the build
    filt_log,     \* history: `filtered` of each strand process_strand saw (mesher)
    res_request,  \* history: the argument of the last with_resolution call, or None
    mesh_builds,  \* history: the number of LSystemMeshBuilder::build calls that returned
    min_radius,   \* ColliderGenerator.min_radius
    min_request,  \* history: the argument of the last with_min_radius call, or None
    parts,        \* value returned by the last build_parts call
    parts_called, \* TRUE once build_parts has returned
    cfilt_log,    \* history: `filtered_points` of each strand (collider)
    cseg_log,     \* history: the two end points of each collider pushed by build_parts
    compound,     \* value returned by the last ColliderGenerator::build call
    collider_builds, \* history: the number of build_parts and of build calls that
                     \* returned, and the min_radius the last of each read
    mesh_buckets,      \* export input: HashMap<u8, Mesh>
    material_settings, \* export input: HashMap<u8, MaterialSettings>
    pack_json,    \* pack_glb input: the JSON text
    pack_bin,     \* pack_glb input: the binary payload
    glb,          \* bytes returned by meshes_to_glb / pack_glb, or None
    glb_log,      \* history: the vectors build_glb filled, or None
    obj,          \* lines returned by meshes_to_obj, or None
    obj_log       \* history: one entry per bucket meshes_to_obj wrote

vars == <<skeleton, resolution, buckets, built, ring_log, seg_log, filt_log, res_request,
          mesh_builds,
          min_radius, min_request, parts, parts_called, cfilt_log, cseg_log, compound,
          collider_builds,
          mesh_buckets, material_settings, pack_json, pack_bin, glb, glb_log, obj, obj_log>>

meshVars ==
    <<resolution, buckets, built, ring_log, seg_log, filt_log, res_request, mesh_builds>>
colliderVars ==
    <<min_radius, min_request, parts, parts_called, cfilt_log, cseg_log, compound,
      collider_builds>>
exportVars ==
    <<mesh_buckets, material_settings, pack_json, pack_bin, glb, glb_log, obj, obj_log>>

----------------------------------------------------------------------------
(* Bounds of the model *)

MaxStrands == 2
MaxPoints == 4
MaxPointsUV == 3
MaxPackLen == 8
MaxBuckets == 2
MaxRuns == 2

(* Units *)
PosScale == 100 * 100

(* Program constants *)
MAX_RESOLUTION == 128
MIN_RESOLUTION == 3
DEFAULT_RESOLUTION == 8
EPS_SQ == 100
CIRC_EPS == 1
LEN_EPS == 1
TauNum == 710
TauDen == 113

None == <<>>

----------------------------------------------------------------------------
(* Arithmetic helpers: exact rationals <<n, d>> with d > 0, in lowest terms *)

Abs(x) == IF x < 0 THEN -x ELSE x

Min(a, b) == IF a < b THEN a ELSE b

Max(a, b) == IF a > b THEN a ELSE b

RECURSIVE Gcd(_, _)
Gcd(a, b) == IF b = 0 THEN a ELSE Gcd(b, a % b)

Rat(n, d) ==
    LET g == Gcd(Abs(n), Abs(d))
        s == IF d < 0 THEN -1 ELSE 1
    IN  <<(s * n) \div g, (s * d) \div g>>

RatMul(a, b) ==
    LET x == Rat(a[1], b[2])
        y == Rat(b[1], a[2])
    IN  Rat(x[1] * y[1], x[2] * y[2])

RatAdd(a, b) ==
    LET g == Gcd(a[2], b[2])
        l == (a[2] \div g) * b[2]
    IN  Rat(a[1] * (l \div a[2]) + b[1] * (l \div b[2]), l)

RatInv(a) == Rat(a[2], a[1])

RatLt(a, b) ==
    LET g == Gcd(a[2], b[2])
    IN  a[1] * (b[2] \div g) < b[1] * (a[2] \div g)

RatInt(n) == <<n, 1>>

----------------------------------------------------------------------------
(* f32 arithmetic, for the places where the rounding of the code decides   *)
(* the result.  A value is [sign, m, x]: sign * m * 2^x with sign 1 or -1  *)
(* and m = 0 (a signed zero, x = 0) or 2^23 <= m < 2^24.  Results are      *)
(* rounded to nearest, ties to even; subnormals, infinities and NaN do not *)
(* occur on the magnitudes used.  All intermediate integers are < 2^31.    *)

\* 2^k for k in 0..30
Pow2(k) ==
    <<1, 2, 4, 8, 16, 32, 64, 128, 256, 512, 1024, 2048, 4096, 8192, 16384, 32768,
      65536, 131072, 262144, 524288, 1048576, 2097152, 4194304, 8388608, 16777216,
      33554432, 67108864, 134217728, 268435456, 536870912, 1073741824>>[k + 1]

RECURSIVE BitLenBetween(_, _, _)
\* the least k in lo..hi with n < 2^k
BitLenBetween(n, lo, hi) ==
    IF lo = hi THEN lo
    ELSE IF n < Pow2((lo + hi) \div 2) THEN BitLenBetween(n, lo, (lo + hi) \div 2)
    ELSE BitLenBetween(n, (lo + hi) \div 2 + 1, hi)

\* the number of binary digits of n, 0 < n < 2^31
BitLen(n) == BitLenBetween(n, 1, 31)

F32Zero(sign) == [sign |-> sign, m |-> 0, x |-> 0]

\* q * 2^x where q < 2^24 after rounding, or q = 2^24 when the rounding carried
F32Carry(sign, q, x) ==
    IF q = Pow2(24) THEN [sign |-> sign, m |-> Pow2(23), x |-> x + 1]
    ELSE [sign |-> sign, m |-> q, x |-> x]

\* the 24-bit quotient q and what was cut off below it: rem against half a unit
\* in the last place, ties to even
F32Nearest(sign, q, rem, half, sticky, x) ==
    F32Carry(sign,
             IF rem > half \/ (rem = half /\ (sticky \/ q % 2 = 1)) THEN q + 1 ELSE q,
             x)

\* M has n binary digits
F32RoundBits(sign, M, x, sticky, n) ==
    IF n <= 24 THEN [sign |-> sign, m |-> M * Pow2(24 - n), x |-> x - (24 - n)]
    ELSE F32Nearest(sign, M \div Pow2(n - 24), M % Pow2(n - 24), Pow2(n - 25), sticky,
                    x + (n - 24))

\* sign * M * 2^x rounded to f32, for 0 <= M < 2^31; sticky tells that non-zero
\* bits below M were cut off (then M >= 2^26)
F32Round(sign, M, x, sticky) ==
    IF M = 0 THEN F32Zero(sign) ELSE F32RoundBits(sign, M, x, sticky, BitLen(M))

RECURSIVE F32Bits(_, _, _, _)
\* binary long division: more quotient bits of r / d appended to M until M >= 2^26
F32Bits(M, r, d, x) ==
    IF M >= Pow2(26) THEN [M |-> M, r |-> r, x |-> x]
    ELSE F32Bits(2 * M + (IF 2 * r >= d THEN 1 ELSE 0), (2 * r) % d, d, x - 1)

\* the quotient bits b of a division, rounded
F32FromBits(sign, b) == F32Round(sign, b.M, b.x, b.r # 0)

\* the f32 nearest to n / d (d > 0): the value of a decimal literal or input
F32FromRatio(n, d) ==
    IF n = 0 THEN F32Zero(1)
    ELSE F32FromBits(IF n < 0 THEN -1 ELSE 1, F32Bits(Abs(n) \div d, Abs(n) % d, d, 0))

\* the 48-bit product as high * 2^24 + low with low < 2^25, rounded
F32MulJoin(sign, x, high, low) ==
    F32Round(sign, (high + low \div Pow2(24)) * Pow2(6) + (low % Pow2(24)) \div Pow2(18),
             x, low % Pow2(18) # 0)

\* the product of two 24-bit significands from their 12-bit halves
F32MulParts(sign, x, ah, al, bh, bl) ==
    F32MulJoin(sign, x, ah * bh + (ah * bl + al * bh) \div Pow2(12),
               ((ah * bl + al * bh) % Pow2(12)) * Pow2(12) + al * bl)

\* f32 `a * b`
F32Mul(a, b) ==
    IF a.m = 0 \/ b.m = 0 THEN F32Zero(a.sign * b.sign)
    ELSE F32MulParts(a.sign * b.sign, a.x + b.x + 18, a.m \div Pow2(12), a.m % Pow2(12),
                     b.m \div Pow2(12), b.m % Pow2(12))

\* |a| < |b| for non-zero a, b
F32MagLt(a, b) == a.x < b.x \/ (a.x = b.x /\ a.m < b.m)

\* f32 `a < b`
F32Lt(a, b) ==
    IF a.m = 0 /\ b.m = 0 THEN FALSE
    ELSE IF a.m = 0 THEN b.sign = 1
    ELSE IF b.m = 0 THEN a.sign = -1
    ELSE IF a.sign # b.sign THEN a.sign = -1
    ELSE IF a.sign = 1 THEN F32MagLt(a, b)
    ELSE F32MagLt(b, a)

\* m shifted down by d bits, the last bit kept sticky
F32ShiftJam(m, d) ==
    IF d >= 27 THEN 1
    ELSE m \div Pow2(d) + (IF m % Pow2(d) # 0 /\ (m \div Pow2(d)) % 2 = 0 THEN 1 ELSE 0)

\* an exact zero sum is +0.0
F32AddRound(sign, x, M) == IF M = 0 THEN F32Zero(1) ELSE F32Round(sign, M, x, FALSE)

\* |big| >= |small|, both non-zero: the smaller operand is shifted down with three
\* extra bits and added to or taken from the larger
F32AddOrdered(big, small) ==
    F32AddRound(big.sign, big.x - 3,
                big.m * 8 + big.sign * small.sign * F32ShiftJam(small.m * 8, big.x - small.x))

\* f32 `a + b`
F32Add(a, b) ==
    IF a.m = 0 /\ b.m = 0 THEN F32Zero(IF a.sign = -1 /\ b.sign = -1 THEN -1 ELSE 1)
    ELSE IF a.m = 0 THEN b
    ELSE IF b.m = 0 THEN a
    ELSE IF F32MagLt(a, b) THEN F32AddOrdered(b, a)
    ELSE F32AddOrdered(a, b)

\* f32 `a - b`
F32Sub(a, b) == F32Add(a, [b EXCEPT !.sign = -b.sign])

RECURSIVE ISqrtNewton(_, _)
\* the integer square root of n by Newton's iteration from r >= sqrt(n)
ISqrtNewton(n, r) ==
    IF (r + n \div r) \div 2 >= r THEN r ELSE ISqrtNewton(n, (r + n \div r) \div 2)

RECURSIVE F32SqrtBits(_, _, _)
RECURSIVE F32SqrtStep(_, _, _)
\* digit by digit square root: i more bits of the root, the digits of the
\* radicand still to come being zero; rem is what is left under the root so far
F32SqrtBits(root, rem, i) ==
    IF i = 0 THEN [root |-> root, rem |-> rem] ELSE F32SqrtStep(root, 4 * rem, i)

\* the next bit of the root is 1 when the remainder r holds 4 * root + 1
F32SqrtStep(root, r, i) ==
    IF r >= 4 * root + 1 THEN F32SqrtBits(2 * root + 1, r - (4 * root + 1), i - 1)
    ELSE F32SqrtBits(2 * root, r, i - 1)

\* the integer root of n = mm * 2^4 < 2^30 continued by twelve more bits: the
\* root of mm * 2^28
F32SqrtFrom(n, root) == F32SqrtBits(root, n - root * root, 12)

\* the root bits b, rounded
F32SqrtRound(b, x) == F32Round(1, b.root, x, b.rem # 0)

\* sqrt(mm * 2^x) for even x and 2^23 <= mm < 2^25: the root of mm * 2^28 has 26
\* or 27 bits
F32SqrtEven(mm, x) ==
    F32SqrtRound(F32SqrtFrom(16 * mm, ISqrtNewton(16 * mm, Pow2(15))), x \div 2 - 14)

\* f32 `sqrt` of v >= 0: the exponent is made even and the root of the
\* significand rounded
F32Sqrt(v) ==
    IF v.m = 0 THEN v
    ELSE IF v.x % 2 = 0 THEN F32SqrtEven(v.m, v.x)
    ELSE F32SqrtEven(2 * v.m, v.x - 1)

\* f32::min for operands that are not NaN
F32MinOf(a, b) == IF F32Lt(b, a) THEN b ELSE a

\* |v| * 10^4 rounded to the nearest integer, ties to even, for |v| < 2^7: the
\* digits `{:.4}` prints
F32TenThousandths(v) ==
    IF v.m = 0 THEN 0
    ELSE LET k == -v.x
             mh == v.m \div Pow2(12)
             ml == v.m % Pow2(12)
             A == mh * 10000
             low == (A % Pow2(12)) * Pow2(12) + ml * 10000
             H == A \div Pow2(12) + low \div Pow2(24)
             L == low % Pow2(24)
         IN  IF k >= 48 THEN 0
             ELSE IF k > 24
             THEN LET q == H \div Pow2(k - 24)
                      hr == H % Pow2(k - 24)
                      half == Pow2(k - 25)
                      round_up == \/ hr > half
                                  \/ hr = half /\ (L > 0 \/ q % 2 = 1)
                  IN  IF round_up THEN q + 1 ELSE q
             ELSE LET q == H * Pow2(24 - k) + L \div Pow2(k)
                      rem == L % Pow2(k)
                      half == Pow2(k - 1)
                      round_up == rem > half \/ (rem = half /\ q % 2 = 1)
                  IN  IF round_up THEN q + 1 ELSE q

RECURSIVE ISqrtBetween(_, _, _)
\* the largest r in lo..hi with r * r <= n (lo * lo <= n)
ISqrtBetween(n, lo, hi) ==
    IF lo >= hi THEN lo
    ELSE LET mid == (lo + hi + 1) \div 2
         IN  IF mid * mid <= n THEN ISqrtBetween(n, mid, hi) ELSE ISqrtBetween(n, lo, mid - 1)

ISqrt(n) == ISqrtBetween(n, 0, Min(n, 46340))

----------------------------------------------------------------------------
(* Vec3 *)

VecSub(a, b) == <<a[1] - b[1], a[2] - b[2], a[3] - b[3]>>

VecAdd(a, b) == <<a[1] + b[1], a[2] + b[2], a[3] + b[3]>>

Dot(a, b) == a[1] * b[1] + a[2] * b[2] + a[3] * b[3]

DistanceSquared(a, b) == Dot(VecSub(a, b), VecSub(a, b))

Length(v) == ISqrt(Dot(v, v))

Distance(a, b) == Length(VecSub(a, b))

Cross(a, b) ==
    <<a[2] * b[3] - a[3] * b[2], a[3] * b[1] - a[1] * b[3], a[1] * b[2] - a[2] * b[1]>>

\* A direction is a Vec3 of length 1.0 = PosScale units (or the zero vector).
NormalizeOrZero(v) ==
    LET l == Length(v)
    IN  IF l = 0 THEN <<0, 0, 0>>
        ELSE <<(v[1] * PosScale) \div l, (v[2] * PosScale) \div l, (v[3] * PosScale) \div l>>

\* a component that is not a number
NAN == -2147483647

\* `Vec3::normalize`: the zero vector has no direction and gives NaN components
Normalize(v) ==
    IF Length(v) = 0 THEN <<NAN, NAN, NAN>> ELSE NormalizeOrZero(v)

VEC_X == <<1, 0, 0>>
VEC_Y == <<0, 1, 0>>

(* Quat.  The rotations that arise for strands lying on a coordinate axis  *)
(* with identity turtle rotation are the identity and the half turns about *)
(* a coordinate axis: the diagonal matrices <<sx, sy, sz>> with entries    *)
(* +1/-1.  Any other rotation is kept as an unevaluated record.            *)
QUAT_IDENTITY == <<1, 1, 1>>

QuatMul(a, b) == <<a[1] * b[1], a[2] * b[2], a[3] * b[3]>>

QuatRotate(q, v) == <<q[1] * v[1], q[2] * v[2], q[3] * v[3]>>

IsAxis(v) == Cardinality({i \in 1..3 : v[i] # 0}) = 1

FromAxisAnglePi(axis) ==
    IF IsAxis(axis)
    THEN <<IF axis[1] # 0 THEN 1 ELSE -1,
           IF axis[2] # 0 THEN 1 ELSE -1,
           IF axis[3] # 0 THEN 1 ELSE -1>>
    ELSE [axis |-> axis, angle |-> "PI"]

FromRotationArc(from, to) == [arc_from |-> from, arc_to |-> to]

DOT_THRESHOLD == 9999
AXIS_LIMIT == 8000
MITER_EPS == 10

\* mesher.rs robust_rotation_arc
RobustRotationArc(from, to) ==
    LET dot == Dot(from, to)
    IN  IF dot < -(DOT_THRESHOLD * PosScale)
        THEN LET axis == IF Abs(from[1]) < AXIS_LIMIT
                         THEN Normalize(Cross(VEC_X, from))
                         ELSE Normalize(Cross(VEC_Y, from))
             IN  FromAxisAnglePi(axis)
        ELSE IF dot > DOT_THRESHOLD * PosScale
             THEN QUAT_IDENTITY
             ELSE FromRotationArc(from, to)

----------------------------------------------------------------------------
(* Point filter.  The Rust result is a Vec of references into `points`;    *)
(* here a sequence of (1-based) indices into `points`.                     *)

RECURSIVE F32UnitsBetween(_, _)
\* the f32 of lo, lo + 1, .., hi units
F32UnitsBetween(lo, hi) ==
    IF lo = hi THEN <<F32FromRatio(lo, PosScale)>>
    ELSE F32UnitsBetween(lo, (lo + hi) \div 2) \o F32UnitsBetween((lo + hi) \div 2 + 1, hi)

\* the conversions of the lengths up to 0.0127, computed once
F32UnitsTable == F32UnitsBetween(0, 127)

\* the f32 of a position coordinate, a radius or a threshold of n units: the f32
\* nearest to n / 10000 (the f32 of -n is the negative of the f32 of n)
F32Units(n) ==
    IF n >= 0 /\ n < Len(F32UnitsTable) THEN F32UnitsTable[n + 1]
    ELSE IF n < 0 /\ -n < Len(F32UnitsTable)
         THEN [F32UnitsTable[1 - n] EXCEPT !.sign = -1]
    ELSE F32FromRatio(n, PosScale)

\* f32 `v * v`
F32Square(v) == F32Mul(v, v)

\* the square of the difference on axis k
F32AxisDistanceSquared(a, b, k) ==
    F32Square(F32Sub(F32Units(a[k]), F32Units(b[k])))

\* glam Vec3::distance_squared in f32: the three differences squared and added
\* from left to right, each operation rounded
F32DistanceSquared(a, b) ==
    F32Add(F32Add(F32AxisDistanceSquared(a, b, 1), F32AxisDistanceSquared(a, b, 2)),
           F32AxisDistanceSquared(a, b, 3))

\* the f32 literal 0.000001
F32_EPS_SQ == F32FromRatio(1, 100 * PosScale)

\* `last.position.distance_squared(point.position) > 0.000001` (mesher.rs and
\* collider.rs alike).  For coordinates up to 10 the rounding of f32 decides the
\* comparison only when the exact squared distance is 0.000001 itself: 0 and 0.001
\* on one axis are kept apart, (0.0006, 0.0008, 0) from the origin is not.
ExceedsEpsilon(a, b) ==
    IF DistanceSquared(a, b) = EPS_SQ
    THEN F32Lt(F32_EPS_SQ, F32DistanceSquared(a, b))
    ELSE DistanceSquared(a, b) > EPS_SQ

RECURSIVE FilterLoopExact(_, _, _)
FilterLoopExact(points, j, result) ==
    IF j > Len(points) THEN result
    ELSE LET last == points[result[Len(result)]]
         IN  FilterLoopExact(points, j + 1,
                 IF DistanceSquared(last.position, points[j].position) > 0
                 THEN Append(result, j)
                 ELSE result)

RECURSIVE FilterLoop(_, _, _)
FilterLoop(points, j, result) ==
    IF j > Len(points) THEN result
    ELSE LET last == points[result[Len(result)]]
         IN  FilterLoop(points, j + 1,
                 IF ExceedsEpsilon(last.position, points[j].position)
                 THEN Append(result, j)
                 ELSE result)

\* Mutant of MeshFilter: only exact duplicates are dropped.
MeshFilterExactOnly(points) == FilterLoopExact(points, 2, <<1>>)

\* mesher.rs process_strand, `filtered`
MeshFilter(points) == FilterLoop(points, 2, <<1>>)

\* Mutant of FarFromLastKept: every point is kept.
FarFromLastKeptAlways(last, point) == TRUE

\* collider.rs process_strand, the test that keeps a point
FarFromLastKept(last, point) == ExceedsEpsilon(last.position, point.position)

RECURSIVE CFilterLoop(_, _, _)
CFilterLoop(points, j, result) ==
    IF j > Len(points) THEN result
    ELSE LET last == points[result[Len(result)]]
         IN  CFilterLoop(points, j + 1,
                 IF FarFromLastKept(last, points[j])
                 THEN Append(result, j)
                 ELSE result)

RECURSIVE CFilterAdjacentLoop(_, _, _)
CFilterAdjacentLoop(points, j, result) ==
    IF j > Len(points) THEN result
    ELSE CFilterAdjacentLoop(points, j + 1,
             IF DistanceSquared(points[j - 1].position, points[j].position) > EPS_SQ
             THEN Append(result, j)
             ELSE result)

\* Mutant of ColliderFilter: a point is compared with its predecessor in the
\* input, not with the last kept point.
ColliderFilterAdjacent(points) == CFilterAdjacentLoop(points, 2, <<1>>)

\* collider.rs process_strand, `filtered_points`
ColliderFilter(points) == CFilterLoop(points, 2, <<1>>)

\* Mutant of Deref: a kept point takes radius, colour, material, uv_scale and
\* rotation from the last point before the next kept one.
DerefLatest(points, idx) ==
    [i \in 1..Len(idx) |->
        IF i < Len(idx)
        THEN [points[idx[i + 1] - 1] EXCEPT !.position = points[idx[i]].position]
        ELSE points[idx[i]]]

\* the filtered points themselves
Deref(points, idx) == [i \in 1..Len(idx) |-> points[idx[i]]]

----------------------------------------------------------------------------
(* Phase 1: per-point rotations (parallel transport) *)

\* Mutant of Tangent: at a vanishing miter sum the outgoing direction is used.
TangentOutgoing(pts, i) ==
    LET n == Len(pts)
    IN  IF i < n
        THEN LET v_in == NormalizeOrZero(VecSub(pts[i].position, pts[i - 1].position))
                 v_out == NormalizeOrZero(VecSub(pts[i + 1].position, pts[i].position))
                 sum == VecAdd(v_in, v_out)
             IN  IF Dot(sum, sum) < MITER_EPS * PosScale
                 THEN v_out
                 ELSE Normalize(sum)
        ELSE NormalizeOrZero(VecSub(pts[i].position, pts[i - 1].position))

Tangent(pts, i) ==
    LET n == Len(pts)
    IN  IF i < n
        THEN LET v_in == NormalizeOrZero(VecSub(pts[i].position, pts[i - 1].position))
                 v_out == NormalizeOrZero(VecSub(pts[i + 1].position, pts[i].position))
                 sum == VecAdd(v_in, v_out)
             IN  IF Dot(sum, sum) < MITER_EPS * PosScale
                 THEN v_in
                 ELSE Normalize(sum)
        ELSE NormalizeOrZero(VecSub(pts[i].position, pts[i - 1].position))

RECURSIVE RotLoop(_, _, _, _)
RotLoop(pts, i, rot, rots) ==
    IF i > Len(pts) THEN rots
    ELSE LET fwd == QuatRotate(rot, [k \in 1..3 |-> VEC_Y[k] * PosScale])
             bend == RobustRotationArc(fwd, Tangent(pts, i))
             rot2 == QuatMul(bend, rot)
         IN  RotLoop(pts, i + 1, rot2, Append(rots, rot2))

Rotations(pts) ==
    LET tangent_0 == NormalizeOrZero(VecSub(pts[2].position, pts[1].position))
        turtle_fwd == QuatRotate(pts[1].rotation, [k \in 1..3 |-> VEC_Y[k] * PosScale])
        rot == QuatMul(RobustRotationArc(turtle_fwd, tangent_0), pts[1].rotation)
    IN  RotLoop(pts, 2, rot, <<rot>>)

----------------------------------------------------------------------------
(* Phase 2: per-point V coordinates *)

TAU == Rat(TauNum, TauDen)

Real(units) == Rat(units, PosScale)

\* v_scale of the segment starting at pts[i]
VScale(pts, i) ==
    LET avg_radius == RatMul(Real(pts[i].radius + pts[i + 1].radius), Rat(1, 2))
        circumference == RatMul(avg_radius, TAU)
    IN  IF RatLt(Real(CIRC_EPS), circumference)
        THEN RatInv(circumference)
        ELSE RatInt(1)

\* Mutant of VIncrement: the uv_scale factor of the start point is left out.
VIncrementUnscaled(pts, i) ==
    LET seg_len == Real(Distance(pts[i].position, pts[i + 1].position))
    IN  RatMul(seg_len, VScale(pts, i))

\* mesher.rs process_strand: `seg_len * v_scale * points[i].uv_scale`
VIncrement(pts, i) ==
    LET seg_len == Real(Distance(pts[i].position, pts[i + 1].position))
    IN  RatMul(RatMul(seg_len, VScale(pts, i)), RatInt(pts[i].uv_scale))

RECURSIVE VLoop(_, _, _, _)
VLoop(pts, i, cumulative_v, coords) ==
    IF i > Len(pts) - 1 THEN coords
    ELSE LET c == RatAdd(cumulative_v, VIncrement(pts, i))
         IN  VLoop(pts, i + 1, c, Append(coords, c))

\* Mutant of VCoords: V computed per segment, not accumulated.
VCoordsLocal(pts) ==
    [i \in 1..Len(pts) |-> IF i = 1 THEN RatInt(0) ELSE VIncrement(pts, i - 1)]

VCoords(pts) == VLoop(pts, 1, RatInt(0), <<RatInt(0)>>)

----------------------------------------------------------------------------
(* MeshData and the ring / triangle generators.  Indices are u32 values,  *)
(* 0-based as in the code; TLA+ sequences are 1-based, so index x refers  *)
(* to positions[x + 1].                                                    *)

DefaultMeshData ==
    [positions |-> <<>>, normals |-> <<>>, colors |-> <<>>, uvs |-> <<>>, indices |-> <<>>]

\* Vertex k (0-based) of a ring: theta = u * TAU with u = k / res.  The position
\* center + rotation * (cos(theta) * radius, 0, sin(theta) * radius) and the normal
\* rotation * (cos(theta), 0, sin(theta)) are kept in terms of their operands.
\* Mutant of RingU: divides by the number of vertices of the ring.
RingUByVertexCount(k, res) == Rat(k, res + 1)

\* mesher.rs add_ring: `i as f32 / res as f32`
RingU(k, res) == Rat(k, res)

RingPosition(center, rotation, radius, k, res) ==
    [center |-> center, rotation |-> rotation, radius |-> radius, u |-> RingU(k, res)]

RingNormal(rotation, k, res) == [rotation |-> rotation, u |-> RingU(k, res)]

\* Mutant of AddRing: the ring is not closed (res vertices, no duplicate at U = 1).
AddRingOpen(data, center, rotation, radius, color, v_coord, res) ==
    [data EXCEPT
        !.positions = @ \o [k \in 1..res |-> RingPosition(center, rotation, radius, k - 1, res)],
        !.normals = @ \o [k \in 1..res |-> RingNormal(rotation, k - 1, res)],
        !.colors = @ \o [k \in 1..res |-> color],
        !.uvs = @ \o [k \in 1..res |-> <<RingU(k - 1, res), v_coord>>]]

\* mesher.rs add_ring: the MeshData after the call
AddRing(data, center, rotation, radius, color, v_coord, res) ==
    [data EXCEPT
        !.positions = @ \o [k \in 1..(res + 1) |-> RingPosition(center, rotation, radius, k - 1, res)],
        !.normals = @ \o [k \in 1..(res + 1) |-> RingNormal(rotation, k - 1, res)],
        !.colors = @ \o [k \in 1..(res + 1) |-> color],
        !.uvs = @ \o [k \in 1..(res + 1) |-> <<RingU(k - 1, res), v_coord>>]]

\* Mutant of StartIndex: the index is taken one past the first new vertex.
StartIndexOneBased(data) == Len(data.positions) + 1

\* mesher.rs add_ring: the value it returns
StartIndex(data) == Len(data.positions)

\* Mutant of Quad: the second triangle is wound the other way.
QuadFlipped(bottom_start, top_start, i) ==
    <<bottom_start + i, top_start + i, bottom_start + i + 1,
      bottom_start + i + 1, top_start + i + 1, top_start + i>>

\* mesher.rs connect_rings: the six indices pushed in iteration i
Quad(bottom_start, top_start, i) ==
    <<bottom_start + i, top_start + i, bottom_start + i + 1,
      bottom_start + i + 1, top_start + i, top_start + i + 1>>

\* the 6 * res indices pushed by the loop `for i in 0..res`
QuadLoop(bottom_start, top_start, res) ==
    [j \in 1..(6 * res) |-> Quad(bottom_start, top_start, (j - 1) \div 6)[((j - 1) % 6) + 1]]

\* mesher.rs connect_rings
ConnectRings(data, bottom_start, top_start, res) ==
    [data EXCEPT !.indices = @ \o QuadLoop(bottom_start, top_start, res)]

----------------------------------------------------------------------------
(* Phase 3 and process_strand.  The builder state threaded through is     *)
(* st = [buckets, ring_log, seg_log, filt_log]: buckets is the HashMap    *)
(* (a function on the set of its keys), the logs are history.              *)

\* Mutant of Bucket: every segment starts from an empty mesh.
BucketFresh(bks, mat_id) == DefaultMeshData

\* mesher.rs process_strand: `self.buckets.entry(mat_id).or_default()`
Bucket(bks, mat_id) == IF mat_id \in DOMAIN bks THEN bks[mat_id] ELSE DefaultMeshData

PutBucket(bks, mat_id, data) ==
    [m \in DOMAIN bks \cup {mat_id} |-> IF m = mat_id THEN data ELSE bks[m]]

\* history entry of one add_ring call: made while connecting segment `seg` of
\* strand s, for the filtered point number fpos, which is points[point]
RingEntry(s, seg, mat_id, start, point, fpos) ==
    [strand |-> s, seg |-> seg, mat |-> mat_id, start |-> start, point |-> point,
     fpos |-> fpos]

\* Mutant of ReuseCached: the cached ring is reused whatever its material.
ReuseCachedAnyMaterial(cached, mat_id) == cached # None

\* mesher.rs process_strand: `Some((cached_mat, idx)) if cached_mat == mat_id`
ReuseCached(cached, mat_id) == cached # None /\ cached[1] = mat_id

\* Mutant of SegmentMaterial: the segment is bucketed by its end point.
SegmentMaterialOfEnd(curr, next) == next.material_id

\* mesher.rs process_strand: `let mat_id = curr.material_id`
SegmentMaterial(curr, next) == curr.material_id

RECURSIVE SegmentLoop(_, _, _, _, _, _, _, _, _)
SegmentLoop(st, s, idx, pts, rotations, v_coords, res, i, ring_cache) ==
    IF i > Len(pts) - 1 THEN st
    ELSE
      LET curr == pts[i]
          next == pts[i + 1]
          mat_id == SegmentMaterial(curr, next)
          bucket0 == Bucket(st.buckets, mat_id)
          reuse == ReuseCached(ring_cache[i], mat_id)
          bottom_idx == IF reuse THEN ring_cache[i][2] ELSE StartIndex(bucket0)
          bucket1 == IF reuse THEN bucket0
                     ELSE AddRing(bucket0, curr.position, rotations[i], curr.radius,
                                  curr.color, v_coords[i], res)
          top_idx == StartIndex(bucket1)
          bucket2 == AddRing(bucket1, next.position, rotations[i + 1], next.radius,
                             next.color, v_coords[i + 1], res)
          bucket3 == ConnectRings(bucket2, bottom_idx, top_idx, res)
          rings1 == IF reuse THEN st.ring_log
                    ELSE Append(st.ring_log, RingEntry(s, i, mat_id, bottom_idx, idx[i], i))
          rings2 == Append(rings1, RingEntry(s, i, mat_id, top_idx, idx[i + 1], i + 1))
          seg == [strand |-> s, seg |-> i, mat |-> mat_id, bottom |-> bottom_idx,
                  top |-> top_idx, reused |-> reuse, from |-> idx[i], to |-> idx[i + 1]]
          st2 == [st EXCEPT !.buckets = PutBucket(st.buckets, mat_id, bucket3),
                            !.ring_log = rings2,
                            !.seg_log = Append(st.seg_log, seg)]
      IN  SegmentLoop(st2, s, idx, pts, rotations, v_coords, res, i + 1,
                      [ring_cache EXCEPT ![i + 1] = <<mat_id, top_idx>>])

\* Mutant of ProcessStrand: the bucket of the first point is created before the
\* filtered length is checked.
ProcessStrandEagerBucket(st, s, points, res) ==
    LET filtered == MeshFilter(points)
        mat0 == points[1].material_id
        st1 == [st EXCEPT !.filt_log = Append(st.filt_log, [strand |-> s, filtered |-> filtered]),
                          !.buckets = PutBucket(st.buckets, mat0, Bucket(st.buckets, mat0))]
    IN  IF Len(filtered) < 2 THEN st1
        ELSE LET pts == Deref(points, filtered)
                 n == Len(pts)
             IN  SegmentLoop(st1, s, filtered, pts, Rotations(pts), VCoords(pts), res, 1,
                             [k \in 1..n |-> None])

\* mesher.rs process_strand; s is the position of the strand in the skeleton
ProcessStrand(st, s, points, res) ==
    LET filtered == MeshFilter(points)
        st1 == [st EXCEPT !.filt_log = Append(st.filt_log, [strand |-> s, filtered |-> filtered])]
    IN  IF Len(filtered) < 2 THEN st1
        ELSE LET pts == Deref(points, filtered)
                 n == Len(pts)
             IN  SegmentLoop(st1, s, filtered, pts, Rotations(pts), VCoords(pts), res, 1,
                             [k \in 1..n |-> None])

RECURSIVE BuildLoop(_, _, _, _)
BuildLoop(st, skel, s, res) ==
    IF s > Len(skel) THEN st
    ELSE IF Len(skel[s]) < 2
         THEN BuildLoop(st, skel, s + 1, res)
         ELSE BuildLoop(ProcessStrand(st, s, skel[s], res), skel, s + 1, res)

\* mesher.rs build: the builder state after the loop over the strands
BuildState(bks, skel, res) ==
    BuildLoop([buckets |-> bks, ring_log |-> <<>>, seg_log |-> <<>>, filt_log |-> <<>>],
              skel, 1, res)

\* mesher.rs with_resolution: `res.clamp(3, MAX_RESOLUTION)`
\* Mutant: only the upper limit is applied.
ClampUpperOnly(res) == Min(res, MAX_RESOLUTION)

ClampResolution(res) == Max(MIN_RESOLUTION, Min(res, MAX_RESOLUTION))

----------------------------------------------------------------------------
(* ColliderGenerator *)

Sphere(radius) == [shape |-> "sphere", radius |-> radius]

Capsule(radius, cylinder_length) ==
    [shape |-> "capsule", radius |-> radius, length |-> cylinder_length]

\* the f32 literals 0.5, 2.0 and 0.0001
F32_HALF == F32FromRatio(1, 2)
F32_TWO == F32FromRatio(2, 1)
F32_LEN_EPS == F32Units(LEN_EPS)

\* collider.rs process_strand: `(start.radius + end.radius) * 0.5`
AvgRadius(start, end) ==
    F32Mul(F32Add(F32Units(start.radius), F32Units(end.radius)), F32_HALF)

\* Mutant of BelowMinRadius: a segment exactly at the threshold is skipped too.
BelowOrAtMinRadius(avg_radius, min_r) == ~F32Lt(F32Units(min_r), avg_radius)

\* collider.rs process_strand: `avg_radius < self.min_radius`
BelowMinRadius(avg_radius, min_r) == F32Lt(avg_radius, F32Units(min_r))

\* collider.rs process_strand: `(end.position - start.position).length()`, the
\* square root of the squared components added from left to right
SegmentLength(start_position, end_position) ==
    F32Sqrt(F32DistanceSquared(end_position, start_position))

\* collider.rs process_strand: `(start.position + end.position) * 0.5`
Midpoint(a, b) == [k \in 1..3 |-> F32Mul(F32Add(F32Units(a[k]), F32Units(b[k])), F32_HALF)]

\* `2.0 * avg_radius`
TwiceRadius(avg_radius) == F32Mul(F32_TWO, avg_radius)

\* Mutant of ColliderShape: a capsule whatever the length.
ColliderShapeAlwaysCapsule(length, avg_radius) ==
    Capsule(avg_radius, F32Sub(length, TwiceRadius(avg_radius)))

\* collider.rs process_strand: sphere for `length < 2.0 * avg_radius`, else capsule
ColliderShape(length, avg_radius) ==
    IF F32Lt(length, TwiceRadius(avg_radius))
    THEN Sphere(avg_radius)
    ELSE Capsule(avg_radius, F32Sub(length, TwiceRadius(avg_radius)))

\* Mutant of PositionedCollider: the length field holds the cylinder length.
PositionedColliderCylinderLength(center, rotation, collider, avg_radius, length) ==
    [translation |-> center, rotation |-> rotation, collider |-> collider,
     radius |-> avg_radius,
     length |-> F32Sub(length, TwiceRadius(avg_radius))]

\* collider.rs process_strand: the PositionedCollider pushed for a segment
PositionedCollider(center, rotation, collider, avg_radius, length) ==
    [translation |-> center, rotation |-> rotation, collider |-> collider,
     radius |-> avg_radius, length |-> length]

RECURSIVE ColliderLoop(_, _, _, _, _, _)
ColliderLoop(cst, s, idx, pts, min_r, i) ==
    IF i > Len(pts) - 1 THEN cst
    ELSE
      LET start == pts[i]
          end == pts[i + 1]
          avg_radius == AvgRadius(start, end)
          segment_vec == VecSub(end.position, start.position)
          length == SegmentLength(start.position, end.position)
          center == Midpoint(start.position, end.position)
          direction == NormalizeOrZero(segment_vec)
          rotation == FromRotationArc([k \in 1..3 |-> VEC_Y[k] * PosScale], direction)
          collider == ColliderShape(length, avg_radius)
          pc == PositionedCollider(center, rotation, collider, avg_radius, length)
      IN  IF BelowMinRadius(avg_radius, min_r) \/ F32Lt(length, F32_LEN_EPS)
          THEN ColliderLoop(cst, s, idx, pts, min_r, i + 1)
          ELSE ColliderLoop(
                   [cst EXCEPT !.colliders = Append(@, pc),
                               !.cseg_log = Append(@, [strand |-> s, from |-> idx[i],
                                                       to |-> idx[i + 1]])],
                   s, idx, pts, min_r, i + 1)

\* Mutant of ProcessStrandC: a strand needs three kept points.
ProcessStrandCThreePoints(cst, s, points, min_r) ==
    IF Len(points) < 2 THEN cst
    ELSE LET filtered_points == ColliderFilter(points)
             cst1 == [cst EXCEPT !.cfilt_log =
                         Append(cst.cfilt_log, [strand |-> s, filtered |-> filtered_points])]
         IN  IF Len(filtered_points) < 3 THEN cst1
             ELSE ColliderLoop(cst1, s, filtered_points,
                               Deref(points, filtered_points), min_r, 1)

\* collider.rs process_strand; cst = [colliders, cfilt_log, cseg_log]
ProcessStrandC(cst, s, points, min_r) ==
    IF Len(points) < 2 THEN cst
    ELSE LET filtered_points == ColliderFilter(points)
             cst1 == [cst EXCEPT !.cfilt_log =
                         Append(cst.cfilt_log, [strand |-> s, filtered |-> filtered_points])]
         IN  IF Len(filtered_points) < 2 THEN cst1
             ELSE ColliderLoop(cst1, s, filtered_points,
                               Deref(points, filtered_points), min_r, 1)

RECURSIVE BuildPartsLoop(_, _, _, _)
BuildPartsLoop(cst, skel, s, min_r) ==
    IF s > Len(skel) THEN cst
    ELSE IF Len(skel[s]) < 2
         THEN BuildPartsLoop(cst, skel, s + 1, min_r)
         ELSE BuildPartsLoop(ProcessStrandC(cst, s, skel[s], min_r), skel, s + 1, min_r)

\* collider.rs build_parts
BuildPartsState(skel, min_r) ==
    BuildPartsLoop([colliders |-> <<>>, cfilt_log |-> <<>>, cseg_log |-> <<>>], skel, 1, min_r)

\* collider.rs build: None, or Some(compound of the children)
\* Mutant of CompoundOf: a compound is made even of an empty list.
CompoundOfAlways(ps) ==
    <<[i \in 1..Len(ps) |-> <<ps[i].translation, ps[i].rotation, ps[i].collider>>]>>

CompoundOf(ps) ==
    IF Len(ps) = 0 THEN None
    ELSE <<[i \in 1..Len(ps) |-> <<ps[i].translation, ps[i].rotation, ps[i].collider>>]>>

----------------------------------------------------------------------------
(* export.rs: the GLB container.  A Vec<u8> is the sequence of the slices  *)
(* appended to it, in order; a slice is a sequence of bytes, or the JSON   *)
(* text itself (ASCII: one byte per character).                            *)

Some(v) == <<v>>

GLB_MAGIC == 1179937895
GLB_VERSION == 2
CHUNK_JSON == 1313821514
CHUNK_BIN == 5130562
SPACE == 32

\* u32::to_le_bytes
U32LE(n) == <<n % 256, (n \div 256) % 256, (n \div 65536) % 256, (n \div 16777216) % 256>>

\* `(len + 3) & !3`
AlignUp4(len) == ((len + 3) \div 4) * 4

\* `glb.resize(glb.len() + n, byte)`: the n bytes added
Padding(n, byte) == [i \in 1..n |-> byte]

\* Mutant of BinChunkSize: the 8 bytes of the chunk header are not counted.
BinChunkSizeNoHeader(has_bin, bin_padded_len) == IF has_bin THEN bin_padded_len ELSE 0

\* export.rs pack_glb: `if has_bin { 8 + bin_padded_len } else { 0 }`
BinChunkSize(has_bin, bin_padded_len) == IF has_bin THEN 8 + bin_padded_len ELSE 0

\* export.rs pack_glb
PackGlb(json, bin_data) ==
    LET json_padded_len == AlignUp4(Len(json))
        bin_padded_len == AlignUp4(Len(bin_data))
        has_bin == Len(bin_data) # 0
        bin_chunk_size == BinChunkSize(has_bin, bin_padded_len)
        total_length == 12 + 8 + json_padded_len + bin_chunk_size
        header == <<U32LE(GLB_MAGIC), U32LE(GLB_VERSION), U32LE(total_length)>>
        json_chunk == <<U32LE(json_padded_len), U32LE(CHUNK_JSON), json,
                        Padding(json_padded_len - Len(json), SPACE)>>
        bin_chunk == <<U32LE(bin_padded_len), U32LE(CHUNK_BIN), bin_data,
                       Padding(bin_padded_len - Len(bin_data), 0)>>
    IN  header \o json_chunk \o (IF has_bin THEN bin_chunk ELSE <<>>)

----------------------------------------------------------------------------
(* export.rs: build_glb.  The f32 fields of MaterialSettings are integers  *)
(* in units of 1/10000; mesh attribute components are whole numbers.       *)

SettingsScale == 10000

\* materials.rs MaterialSettings::default (texture and uv_scale are not exported)
DefaultMaterialSettings ==
    [base_color |-> <<10000, 10000, 10000>>,
     emission_color |-> <<0, 0, 0>>,
     emission_strength |-> 0,
     roughness |-> 5000,
     metallic |-> 0,
     texture |-> "None",
     uv_scale |-> SettingsScale]

RECURSIVE SortedIds(_)
\* `mesh_buckets.keys().copied().collect()` followed by `mat_ids.sort()`
SortedIds(ids) ==
    IF ids = {} THEN <<>>
    ELSE LET lo == CHOOSE k \in ids : \A j \in ids : k <= j
         IN  <<lo>> \o SortedIds(ids \ {lo})

\* Mutant of LookupSettings: an absent id takes the first palette entry.
LookupSettingsFirstEntry(settings, mat_id) ==
    IF mat_id \in DOMAIN settings THEN settings[mat_id]
    ELSE IF DOMAIN settings # {} THEN settings[CHOOSE k \in DOMAIN settings : \A j \in DOMAIN settings : k <= j]
    ELSE DefaultMaterialSettings

\* `material_settings.get(&mat_id).unwrap_or(&defaults)`
LookupSettings(settings, mat_id) ==
    IF mat_id \in DOMAIN settings THEN settings[mat_id] ELSE DefaultMaterialSettings

\* the f32 a MaterialSettings field of v units stands for
SettingF32(v) == F32FromRatio(v, SettingsScale)

\* the f32 literal 1.0
F32_ONE == F32FromRatio(1, 1)

\* `(s.emission_color[i] * s.emission_strength).min(1.0)`: an f32, with the
\* rounding of the product and the sign of a zero
Emissive(s, i) ==
    F32MinOf(F32Mul(SettingF32(s.emission_color[i]), SettingF32(s.emission_strength)),
             F32_ONE)

\* the values formatted into one entry of gltf_materials
GltfMaterial(settings, mat_id) ==
    LET s == LookupSettings(settings, mat_id)
    IN  [name |-> mat_id,
         baseColorFactor |-> s.base_color,
         metallicFactor |-> s.metallic,
         roughnessFactor |-> s.roughness,
         emissiveFactor |-> <<Emissive(s, 1), Emissive(s, 2), Emissive(s, 3)>>]

\* the decimal digits of n, at least w of them
Digits(n, w) ==
    LET d == ToString(n)
    IN  IF Len(d) >= w THEN d ELSE SubSeq("0000000", 1, w - Len(d)) \o d

\* `{:.4}` of v / 10000
Fmt4(v) ==
    (IF v < 0 THEN "-" ELSE "") \o ToString(Abs(v) \div SettingsScale)
        \o "." \o Digits(Abs(v) % SettingsScale, 4)

\* `{:.4}` of the f32 v: rounded to four decimals, ties to even, the sign kept
\* also when the digits are all zero
Fmt4F32(v) ==
    LET n == F32TenThousandths(v)
    IN  (IF v.sign = -1 THEN "-" ELSE "") \o ToString(n \div SettingsScale)
            \o "." \o Digits(n % SettingsScale, 4)

\* `{:.6}` of the whole number n
Fmt6(n) == ToString(n) \o ".000000"

RECURSIVE Join(_, _)
\* `Vec<String>::join(sep)`
Join(texts, sep) ==
    IF texts = <<>> THEN ""
    ELSE IF Len(texts) = 1 THEN texts[1]
    ELSE texts[1] \o sep \o Join(Tail(texts), sep)

\* the format! of one entry of gltf_materials
MaterialJson(m) ==
    "{" \o "\"name\":\"Material_" \o ToString(m.name) \o "\","
        \o "\"pbrMetallicRoughness\":{"
        \o "\"baseColorFactor\":[" \o Fmt4(m.baseColorFactor[1]) \o "," \o Fmt4(m.baseColorFactor[2])
        \o "," \o Fmt4(m.baseColorFactor[3]) \o ",1.0],"
        \o "\"metallicFactor\":" \o Fmt4(m.metallicFactor) \o ","
        \o "\"roughnessFactor\":" \o Fmt4(m.roughnessFactor)
        \o "},"
        \o "\"emissiveFactor\":[" \o Fmt4F32(m.emissiveFactor[1]) \o ","
        \o Fmt4F32(m.emissiveFactor[2]) \o "," \o Fmt4F32(m.emissiveFactor[3]) \o "]"
        \o "}"

\* f32::to_le_bytes of the whole numbers that mesh components take
F32LE(x) ==
    CASE x = 0 -> <<0, 0, 0, 0>>
      [] x = 1 -> <<0, 0, 128, 63>>
      [] x = -1 -> <<0, 0, 128, 191>>
      [] x = 2 -> <<0, 0, 0, 64>>
      [] x = 3 -> <<0, 0, 64, 64>>

RECURSIVE ComponentBytes(_)
\* the bytes of the components of one attribute value, in order
ComponentBytes(v) ==
    IF v = <<>> THEN <<>> ELSE F32LE(v[1]) \o ComponentBytes(Tail(v))

RECURSIVE AttributeBytes(_)
\* `for v in values { bin_buffer.extend_from_slice(..) }`
AttributeBytes(values) ==
    IF values = <<>> THEN <<>>
    ELSE ComponentBytes(values[1]) \o AttributeBytes(Tail(values))

RECURSIVE IndexBytesNarrow(_)
\* Mutant of IndexBytes: every index is written as a u16.
IndexBytesNarrow(idx) ==
    IF idx = <<>> THEN <<>>
    ELSE <<idx[1] % 256, (idx[1] \div 256) % 256>> \o IndexBytesNarrow(Tail(idx))

RECURSIVE IndexBytes(_)
\* both arms of `match indices`: every index is written as a u32
IndexBytes(idx) ==
    IF idx = <<>> THEN <<>> ELSE U32LE(idx[1]) \o IndexBytes(Tail(idx))

RECURSIVE FoldMin(_, _)
\* `min[i] = min[i].min(pos[i])` over a non-empty attribute
FoldMin(values, i) ==
    IF Len(values) = 1 THEN values[1][i] ELSE Min(values[1][i], FoldMin(Tail(values), i))

RECURSIVE FoldMax(_, _)
\* `max[i] = max[i].max(pos[i])` over a non-empty attribute
FoldMax(values, i) ==
    IF Len(values) = 1 THEN values[1][i] ELSE Max(values[1][i], FoldMax(Tail(values), i))

ARRAY_BUFFER == 34962
ELEMENT_ARRAY_BUFFER == 34963
FLOAT == 5126
UNSIGNED_INT == 5125

\* the values formatted into one entry of buffer_views
BufferView(offset, length, target) ==
    [byteOffset |-> offset, byteLength |-> length, target |-> target]

\* the values formatted into one entry of accessors; bounds is None or Some(<<min, max>>)
Accessor(view, component, count, type, bounds) ==
    [bufferView |-> view, componentType |-> component, count |-> count,
     type |-> type, bounds |-> bounds]

\* `bin_buffer.extend(..)`, `buffer_views.push(..)`, `accessors.push(..)` for one block of data
PushBlock(st, bytes, target, component, count, type, bounds) ==
    [st EXCEPT
        !.bin_buffer = @ \o bytes,
        !.buffer_views = Append(@, BufferView(Len(st.bin_buffer), Len(bytes), target)),
        !.accessors = Append(@, Accessor(Len(st.buffer_views), component, count, type, bounds))]

\* Mutant of SkipsBucket: a bucket without normals is skipped as well.
SkipsBucketWithoutNormals(mesh) ==
    \/ mesh.positions = None
    \/ Len(mesh.positions[1]) = 0
    \/ mesh.normals = None

\* the two `continue`s of the mesh loop
SkipsBucket(mesh) ==
    \/ mesh.positions = None
    \/ Len(mesh.positions[1]) = 0

\* one iteration of `for (mesh_idx, &mat_id) in mat_ids.iter().enumerate()`
MeshStep(st, mesh, mat_id, mesh_idx) ==
    IF SkipsBucket(mesh) THEN st
    ELSE
    LET positions == mesh.positions[1]
        vertex_count == Len(positions)
        min == <<FoldMin(positions, 1), FoldMin(positions, 2), FoldMin(positions, 3)>>
        max == <<FoldMax(positions, 1), FoldMax(positions, 2), FoldMax(positions, 3)>>
        a0 == <<<<"POSITION", Len(st.accessors)>>>>
        s1 == PushBlock(st, AttributeBytes(positions), ARRAY_BUFFER, FLOAT,
                        vertex_count, "VEC3", Some(<<min, max>>))
        a1 == IF mesh.normals = None THEN a0
              ELSE Append(a0, <<"NORMAL", Len(s1.accessors)>>)
        s2 == IF mesh.normals = None THEN s1
              ELSE PushBlock(s1, AttributeBytes(mesh.normals[1]), ARRAY_BUFFER, FLOAT,
                             vertex_count, "VEC3", None)
        a2 == IF mesh.colors = None THEN a1
              ELSE Append(a1, <<"COLOR_0", Len(s2.accessors)>>)
        s3 == IF mesh.colors = None THEN s2
              ELSE PushBlock(s2, AttributeBytes(mesh.colors[1]), ARRAY_BUFFER, FLOAT,
                             vertex_count, "VEC4", None)
        indices == IF mesh.indices = None THEN None ELSE Some(Len(s3.accessors))
        s4 == IF mesh.indices = None THEN s3
              ELSE PushBlock(s3, IndexBytes(mesh.indices[1].idx), ELEMENT_ARRAY_BUFFER,
                             UNSIGNED_INT, Len(mesh.indices[1].idx), "SCALAR", None)
    IN  [s4 EXCEPT
            !.gltf_meshes = Append(@, [name |-> mat_id, attributes |-> a2,
                                       indices |-> indices, material |-> mesh_idx]),
            !.gltf_nodes = Append(@, [name |-> mat_id, mesh |-> mesh_idx])]

RECURSIVE MeshLoop(_, _, _, _)
\* the mesh loop of build_glb from position i (1-based) of mat_ids
MeshLoop(st, mb, mat_ids, i) ==
    IF i > Len(mat_ids) THEN st
    ELSE MeshLoop(MeshStep(st, mb[mat_ids[i]], mat_ids[i], i - 1), mb, mat_ids, i + 1)

\* the format! of one entry of buffer_views
BufferViewJson(v) ==
    "{\"buffer\":0,\"byteOffset\":" \o ToString(v.byteOffset)
        \o ",\"byteLength\":" \o ToString(v.byteLength)
        \o ",\"target\":" \o ToString(v.target) \o "}"

\* `[{:.6},{:.6},{:.6}]`
BoundsJson(b) == "[" \o Fmt6(b[1]) \o "," \o Fmt6(b[2]) \o "," \o Fmt6(b[3]) \o "]"

\* the format! of one entry of accessors
AccessorJson(a) ==
    "{\"bufferView\":" \o ToString(a.bufferView)
        \o ",\"componentType\":" \o ToString(a.componentType)
        \o ",\"count\":" \o ToString(a.count)
        \o ",\"type\":\"" \o a.type \o "\""
        \o (IF a.bounds = None THEN ""
            ELSE ",\"min\":" \o BoundsJson(a.bounds[1][1]) \o ",\"max\":" \o BoundsJson(a.bounds[1][2]))
        \o "}"

\* `format!("\"POSITION\":{}", idx)` and its siblings
AttrJson(e) == "\"" \o e[1] \o "\":" \o ToString(e[2])

\* the format! of one entry of gltf_meshes
MeshJson(m) ==
    "{\"name\":\"mesh_mat" \o ToString(m.name) \o "\",\"primitives\":[{\"attributes\":{"
        \o Join([k \in 1..Len(m.attributes) |-> AttrJson(m.attributes[k])], ",") \o "}"
        \o (IF m.indices = None THEN "" ELSE ",\"indices\":" \o ToString(m.indices[1]))
        \o ",\"material\":" \o ToString(m.material) \o "}]}"

\* the format! of one entry of gltf_nodes
NodeJson(n) ==
    "{\"name\":\"node_mat" \o ToString(n.name) \o "\",\"mesh\":" \o ToString(n.mesh) \o "}"

\* the text of build_empty_glb
EMPTY_JSON ==
    "{\"asset\":{\"version\":\"2.0\",\"generator\":\"bevy_symbios\"},\"scene\":0,\"scenes\":[{\"name\":\"Empty\"}]}"

\* the final format! of build_glb
SceneJson(st, gltf_materials) ==
    "{" \o "\"asset\":{\"version\":\"2.0\",\"generator\":\"bevy_symbios\"},"
        \o "\"scene\":0,"
        \o "\"scenes\":[{\"name\":\"LSystem\",\"nodes\":["
        \o Join([k \in 1..Len(st.gltf_nodes) |-> ToString(k - 1)], ",") \o "]}],"
        \o "\"nodes\":[" \o Join([k \in 1..Len(st.gltf_nodes) |-> NodeJson(st.gltf_nodes[k])], ",") \o "],"
        \o "\"meshes\":[" \o Join([k \in 1..Len(st.gltf_meshes) |-> MeshJson(st.gltf_meshes[k])], ",") \o "],"
        \o "\"materials\":[" \o Join([k \in 1..Len(gltf_materials) |-> MaterialJson(gltf_materials[k])], ",") \o "],"
        \o "\"accessors\":[" \o Join([k \in 1..Len(st.accessors) |-> AccessorJson(st.accessors[k])], ",") \o "],"
        \o "\"bufferViews\":[" \o Join([k \in 1..Len(st.buffer_views) |-> BufferViewJson(st.buffer_views[k])], ",") \o "],"
        \o "\"buffers\":[{\"byteLength\":" \o ToString(Len(st.bin_buffer)) \o "}]"
        \o "}"

\* the top-level members of the scene description that the text carries
SceneDoc(st, gltf_materials) ==
    IF st.gltf_nodes = <<>>
    THEN [asset |-> "2.0", scene |-> 0, scenes |-> <<[name |-> "Empty"]>>]
    ELSE [asset |-> "2.0", scene |-> 0,
          scenes |-> <<[name |-> "LSystem", nodes |-> [k \in 1..Len(st.gltf_nodes) |-> k - 1]]>>,
          nodes |-> st.gltf_nodes,
          meshes |-> st.gltf_meshes,
          materials |-> gltf_materials,
          accessors |-> st.accessors,
          bufferViews |-> st.buffer_views,
          buffers |-> <<[byteLength |-> Len(st.bin_buffer)]>>]

\* export.rs build_glb: the container and the values it was built from
BuildGlb(mb, settings) ==
    LET mat_ids == SortedIds(DOMAIN mb)
        gltf_materials == [k \in 1..Len(mat_ids) |-> GltfMaterial(settings, mat_ids[k])]
        st0 == [bin_buffer |-> <<>>, buffer_views |-> <<>>, accessors |-> <<>>,
                gltf_meshes |-> <<>>, gltf_nodes |-> <<>>]
        st == MeshLoop(st0, mb, mat_ids, 1)
        empty == st.gltf_nodes = <<>>
        json == IF empty THEN EMPTY_JSON ELSE SceneJson(st, gltf_materials)
    IN  [mat_ids |-> mat_ids,
         gltf_materials |-> gltf_materials,
         bin_buffer |-> st.bin_buffer,
         json |-> json,
         doc |-> SceneDoc(st, gltf_materials),
         glb |-> PackGlb(json, IF empty THEN <<>> ELSE st.bin_buffer)]

----------------------------------------------------------------------------
(* export.rs: OBJ text.  A String is the sequence of its lines; each line  *)
(* carries its text (without the newline), the values formatted into it,   *)
(* and the material id of the bucket whose mesh_to_obj call wrote it.      *)

\* the attributes of the mesh that are present (UV_0 is never exported and is left out)
PresentAttributes(mesh) ==
    {a \in {mesh.positions, mesh.normals, mesh.colors} : a # None}

\* `mesh.count_vertices()`: the length of the shortest attribute, 0 without attributes
CountVertices(mesh) ==
    IF PresentAttributes(mesh) = {} THEN 0
    ELSE LET lens == {Len(a[1]) : a \in PresentAttributes(mesh)}
         IN  CHOOSE n \in lens : \A m \in lens : n <= m

\* `format!("{}_mat{}", base_name, material_id)`
ObjectName(base_name, material_id) == base_name \o "_mat" \o ToString(material_id)

\* `format!("v {} {} {}", ..)` and `format!("vn {} {} {}", ..)` for whole components
VectorLine(tag, v, id) ==
    [tag |-> tag, bucket |-> id, value |-> v,
     text |-> tag \o " " \o ToString(v[1]) \o " " \o ToString(v[2]) \o " " \o ToString(v[3])]

\* Mutant of FaceIndex: the offset of the earlier buckets is not added.
FaceIndexNoOffset(i, vertex_offset) == i + 1

\* `tri[k] + 1 + vertex_offset`
FaceIndex(i, vertex_offset) == i + 1 + vertex_offset

\* Mutant of FaceLine: the normal references are left out of every face.
FaceLineWithoutNormals(tri, has_normals, vertex_offset, id) ==
    LET a == FaceIndex(tri[1], vertex_offset)
        b == FaceIndex(tri[2], vertex_offset)
        c == FaceIndex(tri[3], vertex_offset)
    IN  [tag |-> "f", bucket |-> id, value |-> <<a, b, c>>,
         text |-> "f " \o ToString(a) \o " " \o ToString(b) \o " " \o ToString(c)]

\* the face line of one complete chunk of three indices
FaceLine(tri, has_normals, vertex_offset, id) ==
    LET a == FaceIndex(tri[1], vertex_offset)
        b == FaceIndex(tri[2], vertex_offset)
        c == FaceIndex(tri[3], vertex_offset)
        A == ToString(a)
        B == ToString(b)
        C == ToString(c)
    IN  [tag |-> "f", bucket |-> id, value |-> <<a, b, c>>,
         text |-> IF has_normals
                  THEN "f " \o A \o "//" \o A \o " " \o B \o "//" \o B \o " " \o C \o "//" \o C
                  ELSE "f " \o A \o " " \o B \o " " \o C]

\* `for tri in idx.chunks(3) { if tri.len() == 3 { .. } }`: a short last chunk writes nothing
FaceLines(idx, has_normals, vertex_offset, id) ==
    [t \in 1..(Len(idx) \div 3) |->
        FaceLine(SubSeq(idx, 3 * t - 2, 3 * t), has_normals, vertex_offset, id)]

\* export.rs mesh_to_obj
MeshToObj(mesh, object_name, vertex_offset, id) ==
    LET header == <<[tag |-> "o", bucket |-> id, value |-> object_name,
                     text |-> "o " \o object_name]>>
        vs == IF mesh.positions = None THEN <<>>
              ELSE [k \in 1..Len(mesh.positions[1]) |-> VectorLine("v", mesh.positions[1][k], id)]
        vns == IF mesh.normals = None THEN <<>>
               ELSE [k \in 1..Len(mesh.normals[1]) |-> VectorLine("vn", mesh.normals[1][k], id)]
        fs == IF mesh.indices = None THEN <<>>
              ELSE FaceLines(mesh.indices[1].idx, mesh.normals # None, vertex_offset, id)
    IN  header \o vs \o vns \o fs

RECURSIVE ObjLoop(_, _, _, _, _, _)
\* the loop of meshes_to_obj over the buckets in the order the map yields them
ObjLoop(mb, base_name, order, i, combined, log) ==
    IF i > Len(order) THEN [combined |-> combined, log |-> log]
    ELSE LET id == order[i]
             vertex_offset == IF i = 1 THEN 0
                              ELSE log[i - 1].vertex_offset + log[i - 1].count_vertices
             lines == MeshToObj(mb[id], ObjectName(base_name, id), vertex_offset, id)
         IN  ObjLoop(mb, base_name, order, i + 1, combined \o lines,
                     Append(log, [material_id |-> id, vertex_offset |-> vertex_offset,
                                  count_vertices |-> CountVertices(mb[id])]))

\* the orders in which a HashMap with these keys can be iterated
IterationOrders(keys) ==
    {o \in [1..Cardinality(keys) -> keys] : \A j, k \in DOMAIN o : j # k => o[j] # o[k]}

----------------------------------------------------------------------------
(* Inputs *)

Point(y, radius, material_id, uv_scale) ==
    [position |-> <<0, y, 0>>, rotation |-> QUAT_IDENTITY, radius |-> radius,
     color |-> <<1, 1, 1, 1>>, material_id |-> material_id, uv_scale |-> uv_scale]

\* positions 0.0000, 0.0008, 0.0016 on the Y axis: neighbours are closer than
\* the filter's epsilon, the outer two are not
CorePoints == {Point(y, 20, 0, 1) : y \in {0, 8, 16}}

\* two positions further apart than epsilon; both materials at the first one,
\* so that a dropped duplicate can differ in material from the point kept
MatPoints == {Point(0, 20, 0, 1), Point(0, 20, 1, 1), Point(16, 20, 1, 1)}

\* three positions (segment lengths 16, 24, 40) and three attribute bundles
\* <<radius, material_id, uv_scale>>: radius 0.002 or 0, a second material,
\* uv_scale 1, 2 or 0
UVPoints ==
    {Point(y, a[1], a[2], a[3]) : y \in {0, 16, 40},
                                  a \in {<<20, 0, 1>>, <<0, 1, 2>>, <<0, 0, 0>>}}

\* three positions and two attribute bundles <<radius, material_id, uv_scale>>
ScalePoints ==
    {Point(y, a[1], a[2], a[3]) : y \in {0, 16, 40}, a \in {<<20, 0, 1>>, <<0, 1, 2>>}}

\* positions 0, 0.004, 0.006 and radii 0.002, 0.002, 0.003: the segment of the
\* first two points is exactly as long as twice its average radius 0.002, the other
\* two have average radius 0.0025 and are longer (0.006) and shorter (0.002) than
\* twice that
ColPoints == {Point(0, 20, 0, 1), Point(40, 20, 0, 1), Point(60, 30, 0, 1)}

\* ColPoints and a point at 0.009: from 0.004 to it the decimal length 0.005 is
\* twice the average radius 0.0025, the f32 length is just below the f32 of it
ShapePoints == ColPoints \cup {Point(90, 30, 0, 1)}

\* ColPoints and a point of radius 0.005: with radius 0.003 the decimal average
\* is 0.004, the f32 average is just below the f32 threshold 0.004
MinPoints == ColPoints \cup {Point(100, 50, 0, 1)}

\* positions 0, 0.0008, 0.0016: the point at 0.0008 is dropped after either
\* neighbour and differs from both in radius, material and uv_scale; two
\* different points at 0.0016
DropPoints ==
    {Point(0, 20, 0, 1), Point(8, 30, 1, 2), Point(16, 20, 0, 1), Point(16, 10, 1, 1)}

\* two positions and two materials; the third point has a negative radius, so
\* that a segment ending in it has a negative average radius
SegPoints == {Point(0, 20, 0, 1), Point(16, 20, 1, 1), Point(16, -30, 1, 1)}

TinyPoints == {Point(y, 20, 0, 1) : y \in {0, 16}}

RECURSIVE SkeletonsOf(_, _, _)
\* the skeletons of exactly k strands over P with at most n points in all
SkeletonsOf(P, k, n) ==
    IF k = 0 THEN {<<>>}
    ELSE UNION {{Append(sk, strand) : sk \in SkeletonsOf(P, k - 1, n - l),
                                      strand \in [1..l -> P]} : l \in 0..n}

Skeletons(P, maxStrands, maxPoints) ==
    UNION {SkeletonsOf(P, k, maxPoints) : k \in 0..maxStrands}

RECURSIVE TextOfLen(_)
\* an ASCII text of n characters
TextOfLen(n) == IF n = 0 THEN "" ELSE TextOfLen(n - 1) \o (IF n % 2 = 1 THEN "{" ELSE "}")

PackTexts == {TextOfLen(n) : n \in 0..MaxPackLen}

PackBins == {[i \in 1..n |-> (i * 85) % 256] : n \in 0..MaxPackLen}

\* a Mesh: each attribute and the index buffer is None or Some(values)
MeshOf(positions, normals, colors, indices) ==
    [positions |-> positions, normals |-> normals, colors |-> colors, indices |-> indices]

\* `Mesh::new(..)` with nothing inserted
MeshBlank == MeshOf(None, None, None, None)

\* mesher.rs MeshData::default().to_mesh(): every attribute present and empty
MeshEmpty == MeshOf(Some(<<>>), Some(<<>>), Some(<<>>), Some([kind |-> "U32", idx |-> <<>>]))

\* one triangle with normals and colours
MeshTri ==
    MeshOf(Some(<<<<0, 0, 0>>, <<1, 0, 0>>, <<0, 2, -1>>>>),
           Some(<<<<0, 0, 1>>, <<0, 0, 1>>, <<0, 0, 1>>>>),
           Some(<<<<1, 0, 0, 1>>, <<0, 1, 0, 1>>, <<0, 0, 1, 1>>>>),
           Some([kind |-> "U32", idx |-> <<0, 1, 2>>]))

\* positions only, u16 indices with an incomplete last triple
MeshBare ==
    MeshOf(Some(<<<<-1, 0, 0>>, <<1, 0, 0>>, <<0, 3, 0>>>>), None, None,
           Some([kind |-> "U16", idx |-> <<2, 1, 0, 1>>]))

\* two triangles on four vertices, normals and no colours
MeshQuad ==
    MeshOf(Some(<<<<0, 0, 0>>, <<1, 0, 0>>, <<0, 1, 0>>, <<1, 1, 0>>>>),
           Some(<<<<0, 0, 1>>, <<0, 0, 1>>, <<0, 0, 1>>, <<0, 0, 1>>>>),
           None,
           Some([kind |-> "U32", idx |-> <<0, 1, 2, 2, 1, 3>>]))

\* vertices without an index buffer
MeshPoints ==
    MeshOf(Some(<<<<2, 2, 2>>, <<-1, -1, -1>>>>), None, None, None)

Meshes == {MeshBlank, MeshEmpty, MeshTri, MeshBare, MeshQuad, MeshPoints}

BucketIds == {0, 1, 5}

\* the HashMap<u8, Mesh> inputs: at most MaxBuckets buckets
MeshBuckets ==
    UNION {[ids -> Meshes] : ids \in {x \in SUBSET BucketIds : Cardinality(x) <= MaxBuckets}}

\* a MaterialSettings with `texture: TextureType::None, uv_scale: 1.0`
SettingsOf(base, emission, strength, roughness, metallic) ==
    [base_color |-> base, emission_color |-> emission, emission_strength |-> strength,
     roughness |-> roughness, metallic |-> metallic, texture |-> "None",
     uv_scale |-> SettingsScale]

\* materials.rs MaterialSettingsMap::default, entries 0 and 1
Palette0 == SettingsOf(<<2000, 8000, 2000>>, <<5000, 10000, 5000>>, 0, 2000, 8000)
Palette1 == SettingsOf(<<10000, 10000, 10000>>, <<0, 10000, 10000>>, 20000, 1000, 0)
\* emission at half strength, and at strength -1.0
SettingsDim == SettingsOf(<<5000, 5000, 5000>>, <<5000, 10000, 0>>, 5000, 9000, 0)
SettingsNegative == SettingsOf(<<5000, 5000, 5000>>, <<5000, 10000, 0>>, -10000, 9000, 0)
\* products that are no multiples of 0.0001: the digits written are rounded
SettingsThirds == SettingsOf(<<3333, 6666, 1>>, <<3333, 6666, 9999>>, 3333, 9000, 0)

\* the HashMap<u8, MaterialSettings> inputs
SettingsMaps ==
    {<<>>,
     [k \in {0, 1} |-> IF k = 0 THEN Palette0 ELSE Palette1],
     [k \in {0} |-> SettingsDim],
     [k \in {1, 5} |-> IF k = 1 THEN SettingsNegative ELSE SettingsDim],
     [k \in {5} |-> SettingsThirds]}

ResRequests == {2, 4}
ResRequestsWide == {0, 2, 3, 4, 9, 127, 128, 129, 1000}
MinRadiusRequests == {-10, 25}

----------------------------------------------------------------------------
(* State machine.  with_min_radius can be called at any time, also between  *)
(* two calls of build_parts or build: these take &self and read only       *)
(* min_radius and the skeleton.  The values returned earlier stay what     *)
(* they were; collider_builds remembers the threshold each was made with.  *)

\* no export call is in progress or made
ExportIdle ==
    /\ mesh_buckets = <<>>
    /\ material_settings = <<>>
    /\ pack_json = ""
    /\ pack_bin = <<>>
    /\ glb = None
    /\ glb_log = None
    /\ obj = None
    /\ obj_log = <<>>

\* a new LSystemMeshBuilder and a new ColliderGenerator, for the skeleton skel
BuildersInit(skel) ==
    /\ skeleton = skel
    /\ resolution = DEFAULT_RESOLUTION
    /\ buckets = <<>>
    /\ built = FALSE
    /\ ring_log = <<>>
    /\ seg_log = <<>>
    /\ filt_log = <<>>
    /\ res_request = None
    /\ mesh_builds = 0
    /\ min_radius = 0
    /\ min_request = None
    /\ parts = <<>>
    /\ parts_called = FALSE
    /\ cfilt_log = <<>>
    /\ cseg_log = <<>>
    /\ compound = [called |-> FALSE, value |-> None]
    /\ collider_builds = [parts |-> 0, compound |-> 0, parts_min |-> 0, compound_min |-> 0]

\* the builders and their input, no export
InitWith(skel) ==
    /\ ExportIdle
    /\ BuildersInit(skel)

Init == \E skel \in Skeletons(CorePoints, MaxStrands, MaxPoints) : InitWith(skel)

InitMesh == \E skel \in Skeletons(MatPoints, MaxStrands, MaxPoints) : InitWith(skel)

InitUV == \E skel \in Skeletons(UVPoints, 1, MaxPointsUV) : InitWith(skel)

InitScale == \E skel \in Skeletons(ScalePoints, 1, MaxPointsUV) : InitWith(skel)

InitCol == \E skel \in Skeletons(ColPoints, MaxStrands, MaxPoints) : InitWith(skel)

InitDrop == \E skel \in Skeletons(DropPoints, 1, MaxPointsUV) : InitWith(skel)

InitSeg == \E skel \in Skeletons(SegPoints, MaxStrands, MaxPoints) : InitWith(skel)

InitMin == \E skel \in Skeletons(MinPoints, 1, MaxPointsUV) : InitWith(skel)

InitCompound == \E skel \in Skeletons(ColPoints, 1, MaxPointsUV) : InitWith(skel)

\* one strand of up to MaxPoints + 1 points: four segments, one for each case of
\* the shape decision
InitShape == \E skel \in Skeletons(ShapePoints, 1, MaxPoints + 1) : InitWith(skel)

\* the inputs of one export call; the builders are not used
InitExport(mb, ms, json, bin) ==
    /\ BuildersInit(<<>>)
    /\ mesh_buckets = mb
    /\ material_settings = ms
    /\ pack_json = json
    /\ pack_bin = bin
    /\ glb = None
    /\ glb_log = None
    /\ obj = None
    /\ obj_log = <<>>

InitPack == \E json \in PackTexts, bin \in PackBins : InitExport(<<>>, <<>>, json, bin)

InitGlb == \E mb \in MeshBuckets, ms \in SettingsMaps : InitExport(mb, ms, "", <<>>)

\* one bucket and its material, to be edited and exported
InitEdit ==
    InitExport([k \in {1} |-> MeshTri], [k \in {1} |-> SettingsNegative], "", <<>>)

InitObj == \E mb \in MeshBuckets : InitExport(mb, <<>>, "", <<>>)

InitTwice == \E skel \in Skeletons(MatPoints, 1, 3) : InitWith(skel)

InitRes == \E skel \in Skeletons(TinyPoints, 1, 3) : InitWith(skel)

\* LSystemMeshBuilder::with_resolution
WithResolution(res) ==
    /\ ~built
    /\ resolution' = ClampResolution(res)
    /\ res_request' = <<res>>
    /\ UNCHANGED <<skeleton, buckets, built, ring_log, seg_log, filt_log, mesh_builds>>
    /\ UNCHANGED colliderVars
    /\ UNCHANGED exportVars

\* LSystemMeshBuilder::build (consumes the builder)
Build ==
    /\ ~built
    /\ LET st == BuildState(buckets, skeleton, resolution)
       IN  /\ buckets' = st.buckets
           /\ ring_log' = st.ring_log
           /\ seg_log' = st.seg_log
           /\ filt_log' = st.filt_log
    /\ built' = TRUE
    /\ mesh_builds' = mesh_builds + 1
    /\ UNCHANGED <<skeleton, resolution, res_request>>
    /\ UNCHANGED colliderVars
    /\ UNCHANGED exportVars

\* `build(mut self, ..)` takes the builder by value, so a later build runs on a
\* builder made by new(): `buckets: HashMap::new()`, whatever the previous held
NextBuilderBuckets(previous) == <<>>

\* `LSystemMeshBuilder::new().with_resolution(res).build(&skeleton)` once more,
\* with the resolution of the previous builder and the same skeleton
BuildAgain ==
    /\ built
    /\ mesh_builds < MaxRuns
    /\ LET st == BuildState(NextBuilderBuckets(buckets), skeleton, resolution)
       IN  /\ buckets' = st.buckets
           /\ ring_log' = st.ring_log
           /\ seg_log' = st.seg_log
           /\ filt_log' = st.filt_log
    /\ mesh_builds' = mesh_builds + 1
    /\ UNCHANGED <<skeleton, resolution, built, res_request>>
    /\ UNCHANGED colliderVars
    /\ UNCHANGED exportVars

\* collider.rs with_min_radius: `min_radius.max(0.0)`
ClampMinRadius(m) == Max(m, 0)

\* ColliderGenerator::with_min_radius
WithMinRadius(m) ==
    /\ min_radius' = ClampMinRadius(m)
    /\ min_request' = <<m>>
    /\ UNCHANGED <<skeleton, parts, parts_called, cfilt_log, cseg_log, compound,
                   collider_builds>>
    /\ UNCHANGED meshVars
    /\ UNCHANGED exportVars

\* ColliderGenerator::build_parts
BuildParts ==
    /\ ~parts_called
    /\ LET cst == BuildPartsState(skeleton, min_radius)
       IN  /\ parts' = cst.colliders
           /\ cfilt_log' = cst.cfilt_log
           /\ cseg_log' = cst.cseg_log
    /\ parts_called' = TRUE
    /\ collider_builds' = [collider_builds EXCEPT !.parts = @ + 1, !.parts_min = min_radius]
    /\ UNCHANGED <<skeleton, min_radius, min_request, compound>>
    /\ UNCHANGED meshVars
    /\ UNCHANGED exportVars

\* ColliderGenerator::build_parts called again on the same generator
BuildPartsAgain ==
    /\ parts_called
    /\ collider_builds.parts < MaxRuns
    /\ LET cst == BuildPartsState(skeleton, min_radius)
       IN  /\ parts' = cst.colliders
           /\ cfilt_log' = cst.cfilt_log
           /\ cseg_log' = cst.cseg_log
    /\ collider_builds' = [collider_builds EXCEPT !.parts = @ + 1, !.parts_min = min_radius]
    /\ UNCHANGED <<skeleton, min_radius, min_request, parts_called, compound>>
    /\ UNCHANGED meshVars
    /\ UNCHANGED exportVars

\* ColliderGenerator::build
ColliderBuild ==
    /\ ~compound.called
    /\ compound' = [called |-> TRUE,
                    value |-> CompoundOf(BuildPartsState(skeleton, min_radius).colliders)]
    /\ collider_builds' = [collider_builds EXCEPT !.compound = @ + 1,
                                                  !.compound_min = min_radius]
    /\ UNCHANGED <<skeleton, min_radius, min_request, parts, parts_called, cfilt_log,
                   cseg_log>>
    /\ UNCHANGED meshVars
    /\ UNCHANGED exportVars

\* ColliderGenerator::build called again on the same generator
ColliderBuildAgain ==
    /\ compound.called
    /\ collider_builds.compound < MaxRuns
    /\ compound' = [called |-> TRUE,
                    value |-> CompoundOf(BuildPartsState(skeleton, min_radius).colliders)]
    /\ collider_builds' = [collider_builds EXCEPT !.compound = @ + 1,
                                                  !.compound_min = min_radius]
    /\ UNCHANGED <<skeleton, min_radius, min_request, parts, parts_called, cfilt_log,
                   cseg_log>>
    /\ UNCHANGED meshVars
    /\ UNCHANGED exportVars

\* export.rs pack_glb, called on its own
PackGlbCall ==
    /\ glb = None
    /\ glb' = PackGlb(pack_json, pack_bin)
    /\ UNCHANGED <<mesh_buckets, material_settings, pack_json, pack_bin, glb_log, obj, obj_log>>
    /\ UNCHANGED <<skeleton, meshVars, colliderVars>>

\* export.rs meshes_to_glb
MeshesToGlb ==
    /\ glb = None
    /\ LET out == BuildGlb(mesh_buckets, material_settings)
       IN  /\ glb' = out.glb
           /\ glb_log' = [mat_ids |-> out.mat_ids,
                          gltf_materials |-> out.gltf_materials,
                          bin_buffer |-> out.bin_buffer,
                          json |-> out.json,
                          doc |-> out.doc]
    /\ UNCHANGED <<mesh_buckets, material_settings, pack_json, pack_bin, obj, obj_log>>
    /\ UNCHANGED <<skeleton, meshVars, colliderVars>>

\* values the user can give the controls of the palette editor: a colour from
\* the colour buttons, Glow from its slider 0..=10, Roughness and Metallic from
\* theirs 0..=1, UV Scale from its slider 0.1..=10, a texture from the list
EditorColors == {<<10000, 0, 0>>}
EditorGlow == {0, 20000}
EditorRoughness == {10000}
EditorMetallic == {10000}
EditorUvScale == {20000}
EditorTextures == {"Grid"}

\* egui Slider over lo..=hi (clamping on, the default): the value it shows for a
\* stored v, and leaves in the local it is bound to
SliderClamp(v, lo, hi) == Max(lo, Min(v, hi))

\* what the entry of one material is after a pass that changed one of its
\* controls: all seven locals are written back, a control the user set with the
\* value given, a slider left alone with the current value clamped to its range,
\* a colour or texture left alone with the current one.  (A click on the texture
\* already selected counts as a change.)
EditedSettings(current) ==
    {[base_color |-> base, emission_color |-> emission, emission_strength |-> glow,
      roughness |-> roughness, metallic |-> metallic, texture |-> texture,
      uv_scale |-> uv_scale] :
        base \in {current.base_color} \cup EditorColors,
        emission \in {current.emission_color} \cup EditorColors,
        glow \in {SliderClamp(current.emission_strength, 0, 10 * SettingsScale)}
                    \cup EditorGlow,
        roughness \in {SliderClamp(current.roughness, 0, SettingsScale)}
                         \cup EditorRoughness,
        metallic \in {SliderClamp(current.metallic, 0, SettingsScale)} \cup EditorMetallic,
        uv_scale \in {SliderClamp(current.uv_scale, SettingsScale \div 10,
                                  10 * SettingsScale)} \cup EditorUvScale,
        texture \in {current.texture} \cup EditorTextures}

\* ui.rs material_palette_editor: for every id of the map the controls are
\* shown with the current values; the entry of a material none of whose controls
\* changed (or whose section is closed) stays as it is, also when a stored value
\* is outside its slider's range, and the entry of a material with a changed
\* control is written back; no id is added or removed.
MaterialPaletteEditor ==
    /\ \E edited \in [DOMAIN material_settings ->
                         UNION {{material_settings[k]} \cup EditedSettings(material_settings[k]) :
                                   k \in DOMAIN material_settings}] :
          /\ \A k \in DOMAIN material_settings :
                edited[k] \in {material_settings[k]} \cup EditedSettings(material_settings[k])
          /\ edited # material_settings
          /\ material_settings' = edited
    /\ UNCHANGED <<mesh_buckets, pack_json, pack_bin, glb, glb_log, obj, obj_log>>
    /\ UNCHANGED <<skeleton, meshVars, colliderVars>>

\* export.rs meshes_to_obj
MeshesToObj(base_name) ==
    /\ obj = None
    /\ \E order \in IterationOrders(DOMAIN mesh_buckets) :
          LET out == ObjLoop(mesh_buckets, base_name, order, 1, <<>>, <<>>)
          IN  /\ obj' = Some(out.combined)
              /\ obj_log' = out.log
    /\ UNCHANGED <<mesh_buckets, material_settings, pack_json, pack_bin, glb, glb_log>>
    /\ UNCHANGED <<skeleton, meshVars, colliderVars>>

Next ==
    \/ Build
    \/ \E m \in {30} : WithMinRadius(m)
    \/ BuildParts

NextMesh ==
    \/ \E res \in ResRequests : WithResolution(res)
    \/ Build

NextUV ==
    \/ \E res \in {4} : WithResolution(res)
    \/ Build

NextScale == Build

NextCol ==
    \/ \E m \in MinRadiusRequests : WithMinRadius(m)
    \/ BuildParts

NextCompound ==
    \/ \E m \in MinRadiusRequests : WithMinRadius(m)
    \/ BuildParts
    \/ ColliderBuild

NextMin ==
    \/ Build
    \/ \E m \in MinRadiusRequests \cup {40} : WithMinRadius(m)
    \/ BuildParts

NextShape == BuildParts

NextDrop ==
    \/ Build
    \/ \E m \in {25} : WithMinRadius(m)
    \/ BuildParts

NextSeg ==
    \/ Build
    \/ BuildParts

NextEdit ==
    \/ MaterialPaletteEditor
    \/ MeshesToGlb

NextPack == PackGlbCall

NextGlb == MeshesToGlb

NextObj == \E base_name \in {"tree"} : MeshesToObj(base_name)

NextTwice ==
    \/ \E res \in {3} : WithResolution(res)
    \/ Build
    \/ BuildAgain
    \/ \E m \in {30} : WithMinRadius(m)
    \/ BuildParts
    \/ BuildPartsAgain
    \/ ColliderBuild
    \/ ColliderBuildAgain

NextRes ==
    \/ \E res \in ResRequestsWide : WithResolution(res)
    \/ Build

Spec == Init /\ [][Next]_vars

SpecMesh == InitMesh /\ [][NextMesh]_vars

SpecUV == InitUV /\ [][NextUV]_vars

SpecRes == InitRes /\ [][NextRes]_vars

SpecScale == InitScale /\ [][NextScale]_vars

SpecCol == InitCol /\ [][NextCol]_vars

SpecMin == InitMin /\ [][NextMin]_vars

SpecShape == InitShape /\ [][NextShape]_vars

SpecCompound == InitCompound /\ [][NextCompound]_vars

SpecDrop == InitDrop /\ [][NextDrop]_vars

SpecSeg == InitSeg /\ [][NextSeg]_vars

SpecEdit == InitEdit /\ [][NextEdit]_vars

SpecPack == InitPack /\ [][NextPack]_vars

SpecGlb == InitGlb /\ [][NextGlb]_vars

SpecObj == InitObj /\ [][NextObj]_vars

SpecTwice == InitTwice /\ [][NextTwice]_vars

----------------------------------------------------------------------------
(* Properties *)

Range(f) == {f[i] : i \in DOMAIN f}

Near(points, a, b) == DistanceSquared(points[a].position, points[b].position) <= EPS_SQ

\* f is what the point filter may return for `points`: indices in increasing
\* order, starting with the first point, consecutive ones further apart than epsilon
FilteredOK(points, f) ==
    /\ Len(f) >= 1
    /\ f[1] = 1
    /\ \A i \in 1..Len(f) : f[i] \in 1..Len(points)
    /\ \A i \in 1..(Len(f) - 1) : f[i] < f[i + 1] /\ ~Near(points, f[i], f[i + 1])

\* C1: the point filter of the mesh builder and of the collider generator returns
\* an order-preserving subsequence of the strand that starts with the strand's
\* first point and whose consecutive points have squared distance > 1e-6; the two
\* filters return the same sequence for the same strand.
ThmC1_FilterContract ==
    /\ \A i \in 1..Len(filt_log) :
          FilteredOK(skeleton[filt_log[i].strand], filt_log[i].filtered)
    /\ \A i \in 1..Len(cfilt_log) :
          FilteredOK(skeleton[cfilt_log[i].strand], cfilt_log[i].filtered)
    /\ (built /\ parts_called) => filt_log = cfilt_log

WitC1_PointDroppedAndKept ==
    /\ built
    /\ parts_called
    /\ \E i \in 1..Len(filt_log) :
          /\ Len(filt_log[i].filtered) >= 2
          /\ Len(filt_log[i].filtered) < Len(skeleton[filt_log[i].strand])

\* the points of strand s that are ring centres / collider end points
RingCentres(s) == {ring_log[i].point : i \in {j \in 1..Len(ring_log) : ring_log[j].strand = s}}

ColliderEnds(s) ==
    UNION {{cseg_log[i].from, cseg_log[i].to} :
              i \in {j \in 1..Len(cseg_log) : cseg_log[j].strand = s}}

\* C2 as claimed: of two adjacent input points with squared distance <= 1e-6 the
\* later one is always dropped (it is in no filtered sequence, is no ring centre
\* and no collider end point).
CexC2_LaterOfAdjacentPairDropped ==
    /\ \A i \in 1..Len(filt_log) :
          LET s == filt_log[i].strand
          IN  \A j \in 1..(Len(skeleton[s]) - 1) :
                 Near(skeleton[s], j, j + 1) =>
                    /\ (j + 1) \notin Range(filt_log[i].filtered)
                    /\ (j + 1) \notin RingCentres(s)
    /\ \A i \in 1..Len(cfilt_log) :
          LET s == cfilt_log[i].strand
          IN  \A j \in 1..(Len(skeleton[s]) - 1) :
                 Near(skeleton[s], j, j + 1) =>
                    /\ (j + 1) \notin Range(cfilt_log[i].filtered)
                    /\ (j + 1) \notin ColliderEnds(s)

\* the last point before j that the filter kept
LastKept(f, j) == CHOOSE k \in Range(f) : k < j /\ \A m \in Range(f) : m < j => m <= k

DroppedIffNearLastKept(points, f) ==
    \A j \in 2..Len(points) : (j \notin Range(f)) <=> Near(points, LastKept(f, j), j)

\* C2 amended: a point is dropped exactly when its squared distance to the last
\* kept point before it is <= 1e-6; in particular the later point of an adjacent
\* pair with squared distance <= 1e-6 is dropped whenever the earlier one is kept.
\* A dropped point is never a ring centre or a collider end point.
ThmC2_DroppedIffNearLastKept ==
    /\ \A i \in 1..Len(filt_log) :
          LET s == filt_log[i].strand
              f == filt_log[i].filtered
          IN  /\ DroppedIffNearLastKept(skeleton[s], f)
              /\ \A j \in 1..(Len(skeleton[s]) - 1) :
                    (Near(skeleton[s], j, j + 1) /\ j \in Range(f)) => (j + 1) \notin Range(f)
              /\ built => RingCentres(s) \subseteq Range(f)
    /\ \A i \in 1..Len(cfilt_log) :
          LET s == cfilt_log[i].strand
              f == cfilt_log[i].filtered
          IN  /\ DroppedIffNearLastKept(skeleton[s], f)
              /\ \A j \in 1..(Len(skeleton[s]) - 1) :
                    (Near(skeleton[s], j, j + 1) /\ j \in Range(f)) => (j + 1) \notin Range(f)
              /\ parts_called => ColliderEnds(s) \subseteq Range(f)

\* a strand 0.0000, 0.0008, 0.0016: the middle point is dropped, the last is kept
\* although it is within epsilon of its predecessor, and it is a ring centre and
\* a collider end point
WitC2_KeptAfterDroppedNeighbour ==
    /\ built
    /\ parts_called
    /\ \E i \in 1..Len(filt_log) :
          LET s == filt_log[i].strand
              f == filt_log[i].filtered
          IN  \E j \in 2..(Len(skeleton[s]) - 1) :
                 /\ j \notin Range(f)
                 /\ (j + 1) \in Range(f)
                 /\ Near(skeleton[s], j, j + 1)
                 /\ (j + 1) \in RingCentres(s)
                 /\ (j + 1) \in ColliderEnds(s)

\* a strand that yields nothing: fewer than 2 points, or every point within
\* epsilon of the first (the filter then keeps the first point only)
Contributes(points) ==
    /\ Len(points) >= 2
    /\ \E j \in 2..Len(points) : ~Near(points, 1, j)

\* C3: a strand with fewer than 2 points, or reduced below 2 points by the filter,
\* adds no ring, no segment, no bucket key and no collider; a skeleton without a
\* contributing strand (the empty one included) gives an empty map and no
\* colliders; every bucket returned holds at least two rings and at least
\* resolution * 6 indices.
ThmC3_DegenerateStrandsContributeNothing ==
    /\ built =>
          /\ \A i \in 1..Len(ring_log) : Contributes(skeleton[ring_log[i].strand])
          /\ \A i \in 1..Len(seg_log) : Contributes(skeleton[seg_log[i].strand])
          /\ DOMAIN buckets = {seg_log[i].mat : i \in 1..Len(seg_log)}
          /\ (\A s \in 1..Len(skeleton) : ~Contributes(skeleton[s])) => buckets = <<>>
          /\ \A m \in DOMAIN buckets :
                /\ Len(buckets[m].positions) >= 2 * (resolution + 1)
                /\ Len(buckets[m].indices) >= resolution * 6
    /\ parts_called =>
          /\ \A i \in 1..Len(cseg_log) : Contributes(skeleton[cseg_log[i].strand])
          /\ (\A s \in 1..Len(skeleton) : ~Contributes(skeleton[s])) => parts = <<>>
          /\ Len(parts) = Len(cseg_log)

\* one strand collapses under the filter, another one gives geometry and a collider
WitC3_CollapsedStrandBesideGeometry ==
    /\ built
    /\ parts_called
    /\ \E s \in 1..Len(skeleton) : Len(skeleton[s]) >= 2 /\ ~Contributes(skeleton[s])
    /\ buckets # <<>>
    /\ parts # <<>>

ClampedTo(req, lo, hi) == IF req < lo THEN lo ELSE IF req > hi THEN hi ELSE req

\* C4: the stored resolution is always in [3, 128]; it is 8 until with_resolution
\* is called and afterwards the last requested value clamped into [3, 128]; build
\* then still produces geometry with rings of resolution + 1 vertices.
ThmC4_ResolutionClamped ==
    /\ resolution \in 3..128
    /\ res_request = None => resolution = 8
    /\ res_request # None => resolution = ClampedTo(res_request[1], 3, 128)
    /\ (built /\ \E s \in 1..Len(skeleton) : Contributes(skeleton[s])) =>
          /\ buckets # <<>>
          /\ \A m \in DOMAIN buckets :
                /\ Len(buckets[m].positions) >= 2 * (resolution + 1)
                /\ Len(buckets[m].indices) >= 6 * resolution

WitC4_ClampedHighAndBuilt ==
    /\ built
    /\ res_request # None
    /\ res_request[1] > 128
    /\ resolution = 128
    /\ buckets # <<>>

----------------------------------------------------------------------------
(* Buckets: counts, sharing, keys, index space *)

Count(log, P(_)) == Cardinality({i \in 1..Len(log) : P(log[i])})

\* the segments of the filtered strands whose start point has material m,
\* counted on the skeleton
\* <<i, k>>: the k-th kept point of the i-th processed strand starts a segment
SegmentStarts ==
    UNION {{<<i, k>> : k \in 1..(Len(filt_log[i].filtered) - 1)} : i \in 1..Len(filt_log)}

StartPoint(x) == skeleton[filt_log[x[1]].strand][filt_log[x[1]].filtered[x[2]]]

SegmentsStartingWith(m) ==
    Cardinality({x \in SegmentStarts : StartPoint(x).material_id = m})

\* C5: in every bucket the vertex count is (rings generated into the bucket) *
\* (resolution + 1), for all four vertex attributes, and the index count is
\* (filtered segments whose start point has the bucket's material) * resolution * 6.
ThmC5_VertexAndIndexCounts ==
    built =>
       \A m \in DOMAIN buckets :
          LET rings == Count(ring_log, LAMBDA r : r.mat = m)
          IN  /\ Len(buckets[m].positions) = rings * (resolution + 1)
              /\ Len(buckets[m].normals) = rings * (resolution + 1)
              /\ Len(buckets[m].colors) = rings * (resolution + 1)
              /\ Len(buckets[m].uvs) = rings * (resolution + 1)
              /\ Len(buckets[m].indices) = SegmentsStartingWith(m) * resolution * 6

WitC5_TwoBucketsThreeRings ==
    /\ built
    /\ Cardinality(DOMAIN buckets) = 2
    /\ \E m \in DOMAIN buckets :
          /\ Len(buckets[m].positions) = 3 * (resolution + 1)
          /\ Len(buckets[m].indices) = 2 * resolution * 6

\* the segments of strand s, in the order they were connected
SegsOf(s) == SelectSeq(seg_log, LAMBDA e : e.strand = s)

StartMaterial(e) == skeleton[e.strand][e.from].material_id

\* interior points of strand s at which the material of the segments changes
MaterialChanges(s) ==
    Cardinality({k \in 2..Len(SegsOf(s)) :
                    StartMaterial(SegsOf(s)[k]) # StartMaterial(SegsOf(s)[k - 1])})

\* position in ring_log of the ring with start index b in bucket m
RingAt(m, b) == {j \in 1..Len(ring_log) : ring_log[j].mat = m /\ ring_log[j].start = b}

\* C6: the bottom ring of segment i >= 1 of a strand is the top ring of segment
\* i-1 (same start index, same bucket) exactly when the two segments have the same
\* material; otherwise, and for segment 0, it is a fresh ring of the segment's
\* bucket.  A strand of N segments emits N + 1 + (interior material changes) rings.
ThmC6_RingSharing ==
    built =>
       \A s \in 1..Len(skeleton) :
          LET segs == SegsOf(s)
              N == Len(segs)
          IN  /\ \A k \in 1..N :
                    LET e == segs[k]
                        shared == /\ k > 1
                                  /\ e.bottom = segs[k - 1].top
                                  /\ e.mat = segs[k - 1].mat
                        fresh == \E j \in RingAt(e.mat, e.bottom) :
                                    /\ ring_log[j].strand = s
                                    /\ ring_log[j].seg = k
                                    /\ ring_log[j].point = e.from
                    IN  /\ (k > 1 /\ StartMaterial(e) = StartMaterial(segs[k - 1])) => shared
                        /\ (k = 1 \/ StartMaterial(e) # StartMaterial(segs[k - 1])) => fresh
                        /\ shared <=> ~fresh
              /\ N > 0 =>
                    Count(ring_log, LAMBDA r : r.strand = s) = N + 1 + MaterialChanges(s)

WitC6_SharedAndDuplicatedRing ==
    /\ built
    /\ \E s \in 1..Len(skeleton) :
          /\ Len(SegsOf(s)) = 3
          /\ MaterialChanges(s) = 1
          /\ Count(ring_log, LAMBDA r : r.strand = s) = 5
          /\ \E k \in 2..3 : SegsOf(s)[k].bottom = SegsOf(s)[k - 1].top

\* the vertices of the ring with start index b in bucket m all lie around `center`
RingCentredAt(m, b, center) ==
    /\ b + resolution + 1 <= Len(buckets[m].positions)
    /\ \A k \in 1..(resolution + 1) : buckets[m].positions[b + k].center = center

\* C7: the rings and triangles of a segment go into the bucket keyed by the
\* material_id of the segment's start point, and the keys of the returned map are
\* exactly the material_ids of the segment-start points of the filtered strands.
ThmC7_BucketByStartMaterial ==
    built =>
       /\ \A i \in 1..Len(seg_log) :
             LET e == seg_log[i]
                 m == StartMaterial(e)
             IN  /\ e.mat = m
                 /\ m \in DOMAIN buckets
                 /\ RingCentredAt(m, e.bottom, skeleton[e.strand][e.from].position)
                 /\ RingCentredAt(m, e.top, skeleton[e.strand][e.to].position)
                 /\ \E c \in 0..(Len(buckets[m].indices) \div (6 * resolution)) - 1 :
                       SubSeq(buckets[m].indices, c * 6 * resolution + 1,
                              (c + 1) * 6 * resolution)
                          = QuadLoop(e.bottom, e.top, resolution)
       /\ DOMAIN buckets = {StartPoint(x).material_id : x \in SegmentStarts}

\* a strand whose last point has a material that got no bucket
WitC7_LastPointMaterialWithoutBucket ==
    /\ built
    /\ buckets # <<>>
    /\ \E i \in 1..Len(filt_log) :
          LET f == filt_log[i].filtered
          IN  /\ Len(f) >= 2
              /\ skeleton[filt_log[i].strand][f[Len(f)]].material_id \notin DOMAIN buckets

\* C8: every index of a bucket is smaller than the bucket's vertex count, and the
\* two ring start indices of every connected segment were returned by add_ring on
\* the segment's own bucket.
ThmC8_IndicesStayInBucket ==
    built =>
       /\ \A m \in DOMAIN buckets :
             \A j \in 1..Len(buckets[m].indices) :
                buckets[m].indices[j] \in 0..(Len(buckets[m].positions) - 1)
       /\ \A i \in 1..Len(seg_log) :
             /\ RingAt(seg_log[i].mat, seg_log[i].bottom) # {}
             /\ RingAt(seg_log[i].mat, seg_log[i].top) # {}
             /\ seg_log[i].top + resolution < Len(buckets[seg_log[i].mat].positions)
             /\ seg_log[i].bottom + resolution < Len(buckets[seg_log[i].mat].positions)

\* two strands whose materials interleave: material 0, then 1, then 0 again
WitC8_InterleavedMaterials ==
    /\ built
    /\ Len(seg_log) >= 3
    /\ \E i \in 1..(Len(seg_log) - 2) :
          /\ seg_log[i].mat # seg_log[i + 1].mat
          /\ seg_log[i + 2].mat = seg_log[i].mat
          /\ seg_log[i + 2].reused = FALSE
          /\ seg_log[i + 2].bottom > 0

\* C9: the uvs of a bucket come in rings of resolution + 1 entries and the k-th
\* entry of a ring (k = 0..resolution) has U = k / resolution: 0 for the first
\* vertex, 1 for the last.
ThmC9_RingU ==
    built =>
       \A m \in DOMAIN buckets :
          LET uvs == buckets[m].uvs
          IN  /\ Len(uvs) % (resolution + 1) = 0
              /\ \A j \in 1..Len(uvs) :
                    LET k == (j - 1) % (resolution + 1)
                        u == uvs[j][1]
                    IN  /\ u[2] > 0
                        /\ u[1] * resolution = k * u[2]
                        /\ k = 0 => u = <<0, 1>>
                        /\ k = resolution => u = <<1, 1>>

WitC9_RingsAtResolution4 ==
    /\ built
    /\ resolution = 4
    /\ \E m \in DOMAIN buckets :
          /\ Len(buckets[m].uvs) >= 10
          /\ buckets[m].uvs[7][1] = <<1, 4>>
          /\ buckets[m].uvs[10][1] = <<1, 1>>

----------------------------------------------------------------------------
(* V coordinates *)

FilteredOf(s) == (CHOOSE e \in Range(filt_log) : e.strand = s).filtered

\* f(i) of the segment from pts[i] to pts[i + 1]: 1 / (2 pi avg_radius) when that
\* circumference is > 0.0001, else 1; R is the sum of the two radii in units
SegmentFactor(pts, i) ==
    LET R == pts[i].radius + pts[i + 1].radius
    IN  IF R * TauNum > 2 * TauDen
        THEN Rat(2 * TauDen * PosScale, R * TauNum)
        ELSE <<1, 1>>

RECURSIVE ExpectedV(_, _)
ExpectedV(pts, i) ==
    IF i = 1 THEN <<0, 1>>
    ELSE RatAdd(ExpectedV(pts, i - 1),
                RatMul(RatMul(Rat(Distance(pts[i - 1].position, pts[i].position), PosScale),
                              SegmentFactor(pts, i - 1)),
                       <<pts[i - 1].uv_scale, 1>>))

\* the V value carried by all vertices of the ring logged as r, if they agree
RingHasV(r, v) ==
    \A k \in 1..(resolution + 1) : buckets[r.mat].uvs[r.start + k][2] = v

\* C10: V is a function of the filtered point index: 0 at the first point of a
\* strand, V[i+1] = V[i] + segment_length(i) * f(i) * uv_scale[i]; every vertex of
\* every ring emitted at point i carries V[i], so rings emitted twice at a material
\* change agree; along a segment whose start point has positive uv_scale V
\* strictly increases.
ThmC10_VAccumulates ==
    built =>
       /\ \A j \in 1..Len(ring_log) :
             LET r == ring_log[j]
                 pts == Deref(skeleton[r.strand], FilteredOf(r.strand))
             IN  /\ RingHasV(r, ExpectedV(pts, r.fpos))
                 /\ r.fpos = 1 => RingHasV(r, <<0, 1>>)
       /\ \A j1, j2 \in 1..Len(ring_log) :
             (ring_log[j1].strand = ring_log[j2].strand /\ ring_log[j1].fpos = ring_log[j2].fpos)
                => buckets[ring_log[j1].mat].uvs[ring_log[j1].start + 1][2]
                      = buckets[ring_log[j2].mat].uvs[ring_log[j2].start + 1][2]
       /\ \A i \in 1..Len(seg_log) :
             LET e == seg_log[i]
             IN  skeleton[e.strand][e.from].uv_scale > 0 =>
                    RatLt(buckets[e.mat].uvs[e.bottom + 1][2], buckets[e.mat].uvs[e.top + 1][2])

\* a strand of three kept points with a material change and a radius change at
\* the middle point, where two rings were emitted, and V growing over both segments
WitC10_TaperAndMaterialChange ==
    /\ built
    /\ \E s \in 1..Len(skeleton) :
          /\ Len(SegsOf(s)) = 2
          /\ SegsOf(s)[1].mat # SegsOf(s)[2].mat
          /\ skeleton[s][SegsOf(s)[1].from].radius # skeleton[s][SegsOf(s)[2].to].radius
          /\ Count(ring_log, LAMBDA r : r.strand = s /\ r.fpos = 2) = 2
          /\ RatLt(<<0, 1>>, buckets[SegsOf(s)[1].mat].uvs[SegsOf(s)[1].top + 1][2])
          /\ RatLt(buckets[SegsOf(s)[2].mat].uvs[SegsOf(s)[2].bottom + 1][2],
                   buckets[SegsOf(s)[2].mat].uvs[SegsOf(s)[2].top + 1][2])

----------------------------------------------------------------------------
(* uv_scale is a linear factor of V *)

\* the skeleton with the uv_scale of every point of strand s multiplied by c
ScaleUV(skel, s, c) ==
    [skel EXCEPT ![s] = [i \in 1..Len(skel[s]) |->
                            [skel[s][i] EXCEPT !.uv_scale = c * skel[s][i].uv_scale]]]

UVFactors == {2, 3}

\* the vertices (positions in the bucket's buffers) of the rings of strand s
RingVertices(log, m, s, res) ==
    UNION {{log[j].start + k : k \in 1..(res + 1)} :
              j \in {i \in 1..Len(log) : log[i].mat = m /\ log[i].strand = s}}

\* bs is the result of the same build after the uv_scale of strand s was multiplied
\* by c: same keys, positions, normals, colours, indices and U; V of the vertices of
\* strand s multiplied by c, V of the other vertices unchanged
ScaledBy(bs, s, c) ==
    /\ DOMAIN bs = DOMAIN buckets
    /\ \A m \in DOMAIN buckets :
          /\ bs[m].positions = buckets[m].positions
          /\ bs[m].normals = buckets[m].normals
          /\ bs[m].colors = buckets[m].colors
          /\ bs[m].indices = buckets[m].indices
          /\ Len(bs[m].uvs) = Len(buckets[m].uvs)
          /\ \A j \in 1..Len(buckets[m].uvs) :
                /\ bs[m].uvs[j][1] = buckets[m].uvs[j][1]
                /\ bs[m].uvs[j][2] =
                      IF j \in RingVertices(ring_log, m, s, resolution)
                      THEN RatMul(RatInt(c), buckets[m].uvs[j][2])
                      ELSE buckets[m].uvs[j][2]

\* C11: multiplying the uv_scale of all points of a strand by c multiplies every V
\* of that strand by c and leaves positions, normals, U and indices unchanged.
ThmC11_UVScaleIsLinear ==
    built =>
       \A s \in 1..Len(skeleton) : \A c \in UVFactors :
          ScaledBy(BuildState(<<>>, ScaleUV(skeleton, s, c), resolution).buckets, s, c)

\* a built strand with a ring of non-zero V, whose doubled uv_scale doubles that V
WitC11_DoubledVDiffers ==
    /\ built
    /\ Len(skeleton) = 1
    /\ \E m \in DOMAIN buckets : \E j \in 1..Len(buckets[m].uvs) :
          LET bs == BuildState(<<>>, ScaleUV(skeleton, 1, 2), resolution).buckets
          IN  /\ RatLt(RatInt(0), buckets[m].uvs[j][2])
              /\ bs[m].uvs[j][2] = RatMul(RatInt(2), buckets[m].uvs[j][2])
              /\ bs[m].uvs[j][2] # buckets[m].uvs[j][2]

----------------------------------------------------------------------------
(* Colliders *)

\* the threshold the last build_parts call, and the last build call, read
PartsMinRadius == collider_builds.parts_min

CompoundMinRadius == collider_builds.compound_min

\* the segments <<strand, from, to>> of the filtered strands of the collider
\* generator; from and to are positions in the strand of the skeleton
ColliderSegments ==
    UNION {{<<cfilt_log[i].strand, cfilt_log[i].filtered[k], cfilt_log[i].filtered[k + 1]>> :
               k \in 1..(Len(cfilt_log[i].filtered) - 1)} : i \in 1..Len(cfilt_log)}

SegLength(x) == Distance(skeleton[x[1]][x[2]].position, skeleton[x[1]][x[3]].position)

\* twice the average radius of the segment
SegDiameter(x) == skeleton[x[1]][x[2]].radius + skeleton[x[1]][x[3]].radius

\* the segment of the i-th collider returned by build_parts
Emitted(i) == <<cseg_log[i].strand, cseg_log[i].from, cseg_log[i].to>>

\* the f32 length and the f32 average radius the generator computes for segment x
CSegLength(x) ==
    SegmentLength(skeleton[x[1]][x[2]].position, skeleton[x[1]][x[3]].position)

CSegRadius(x) == AvgRadius(skeleton[x[1]][x[2]], skeleton[x[1]][x[3]])

\* v is not negative
F32NonNegative(v) == ~F32Lt(v, F32Zero(1))

\* the average radius of segment x is below the threshold build_parts read
UnderThreshold(x) == F32Lt(CSegRadius(x), F32Units(PartsMinRadius))

\* C12: a collider of a segment of (f32) length L and average radius r is a sphere
\* of radius r when L < 2r, else a capsule of cap radius r and cylinder length
\* L - 2r, which is never negative (0 when L = 2r).
ThmC12_ShapeSelection ==
    parts_called =>
       /\ Len(parts) = Len(cseg_log)
       /\ \A i \in 1..Len(parts) :
             LET L == CSegLength(Emitted(i))
                 r == CSegRadius(Emitted(i))
                 c == parts[i].collider
             IN  /\ F32Lt(L, TwiceRadius(r)) => c = [shape |-> "sphere", radius |-> r]
                 /\ ~F32Lt(L, TwiceRadius(r)) =>
                       c = [shape |-> "capsule", radius |-> r,
                            length |-> F32Sub(L, TwiceRadius(r))]
                 /\ c.shape = "capsule" => F32NonNegative(c.length)
                 /\ L = TwiceRadius(r) => c.shape = "capsule" /\ c.length = F32Zero(1)

\* one strand of five points gave a sphere for a segment well shorter than 2r, a
\* capsule of cylinder length 0, a longer capsule, and a sphere for the segment
\* from 0.004 to 0.009 of average radius 0.0025, whose f32 length is just below
\* the f32 2r
WitC12_SphereAndBothCapsules ==
    /\ parts_called
    /\ \E i, j, k, n \in 1..Len(parts) :
          /\ parts[i].collider.shape = "sphere"
          /\ SegLength(Emitted(i)) < SegDiameter(Emitted(i))
          /\ parts[j].collider.shape = "capsule" /\ parts[j].collider.length = F32Zero(1)
          /\ parts[k].collider.shape = "capsule" /\ parts[k].collider.length.m > 0
          /\ parts[n].collider.shape = "sphere"
          /\ SegLength(Emitted(n)) = SegDiameter(Emitted(n))

\* a segment gets a collider: average radius not below the threshold, length not
\* below 0.0001
Qualifies(x) == ~UnderThreshold(x) /\ ~F32Lt(CSegLength(x), F32_LEN_EPS)

\* C13: build_parts returns one PositionedCollider per qualifying filtered segment,
\* strand by strand and segment by segment; radius is the mean of the end radii,
\* length the distance of the end points, translation their midpoint: the f32
\* results, which to four decimals are the mean, the distance and the midpoint of
\* the decimal inputs.
ThmC13_OnePartPerSegment ==
    parts_called =>
       /\ Len(parts) = Len(cseg_log)
       /\ {Emitted(i) : i \in 1..Len(parts)} = {x \in ColliderSegments : Qualifies(x)}
       /\ \A i, j \in 1..Len(parts) :
             i < j => \/ Emitted(i)[1] < Emitted(j)[1]
                      \/ Emitted(i)[1] = Emitted(j)[1] /\ Emitted(i)[2] < Emitted(j)[2]
       /\ \A i \in 1..Len(parts) :
             LET a == skeleton[Emitted(i)[1]][Emitted(i)[2]]
                 b == skeleton[Emitted(i)[1]][Emitted(i)[3]]
             IN  /\ parts[i].radius = AvgRadius(a, b)
                 /\ F32TenThousandths(TwiceRadius(parts[i].radius)) = Abs(a.radius + b.radius)
                 /\ parts[i].length = SegmentLength(a.position, b.position)
                 /\ F32TenThousandths(parts[i].length) = Distance(a.position, b.position)
                 /\ parts[i].translation = Midpoint(a.position, b.position)
                 /\ \A d \in 1..3 :
                       F32TenThousandths(F32Mul(F32_TWO, parts[i].translation[d]))
                          = Abs(a.position[d] + b.position[d])

\* two strands gave one collider each, the first a capsule with a cylinder
WitC13_TwoStrandsTwoParts ==
    /\ parts_called
    /\ Len(parts) = 2
    /\ cseg_log[1].strand = 1 /\ cseg_log[2].strand = 2
    /\ parts[1].collider.shape = "capsule"
    /\ parts[1].collider.length.m > 0
    /\ F32Lt(parts[1].collider.length, parts[1].length)
    /\ parts[1].translation # parts[2].translation

\* C14: a filtered segment whose (f32) average radius is below the threshold gets no
\* collider, one at or above it (and of length >= 0.0001) gets exactly one, and the
\* mesh builder connects the segment either way; the threshold is max(request, 0),
\* 0 before any request.
ThmC14_MinRadiusFilter ==
    /\ min_radius >= 0
    /\ min_request = None => min_radius = 0
    /\ min_request # None =>
          min_radius = (IF min_request[1] < 0 THEN 0 ELSE min_request[1])
    /\ (parts_called /\ built) =>
          \A x \in ColliderSegments :
             LET n == Cardinality({i \in 1..Len(cseg_log) : Emitted(i) = x})
             IN  /\ UnderThreshold(x) => n = 0
                 /\ Qualifies(x) => n = 1
                 /\ \E j \in 1..Len(seg_log) :
                       /\ seg_log[j].strand = x[1]
                       /\ seg_log[j].from = x[2]
                       /\ seg_log[j].to = x[3]

\* threshold 0.0025: a segment of average radius 0.002 without collider, one of
\* average radius 0.0025 with a collider, both in the mesh
WitC14_ThinSkippedThresholdKept ==
    /\ parts_called
    /\ built
    /\ PartsMinRadius = 25
    /\ Len(seg_log) = 2
    /\ Len(parts) = 1
    /\ \E x \in ColliderSegments : SegDiameter(x) = 40
    /\ SegDiameter(Emitted(1)) = 50

\* C15: build returns None exactly when build_parts returns an empty list; else a
\* compound whose children are the (translation, rotation, shape) of the parts, in
\* the same order and number.
ThmC15_CompoundOfParts ==
    (parts_called /\ compound.called /\ PartsMinRadius = CompoundMinRadius) =>
       /\ compound.value = None <=> parts = <<>>
       /\ parts # <<>> =>
             /\ Len(compound.value) = 1
             /\ Len(compound.value[1]) = Len(parts)
             /\ \A i \in 1..Len(parts) :
                   compound.value[1][i]
                      = <<parts[i].translation, parts[i].rotation, parts[i].collider>>

\* both results of a generator that emits two different colliders
WitC15_CompoundOfTwo ==
    /\ parts_called
    /\ compound.called
    /\ PartsMinRadius = CompoundMinRadius
    /\ Len(parts) = 2
    /\ compound.value # None
    /\ compound.value[1][1] # compound.value[1][2]

----------------------------------------------------------------------------
(* GLB container *)

\* inverse of u32::to_le_bytes
LE32Value(b) == b[1] + 256 * b[2] + 65536 * b[3] + 16777216 * b[4]

RECURSIVE ByteCount(_)
\* the number of bytes of a Vec<u8> given as the sequence of its slices
ByteCount(slices) ==
    IF slices = <<>> THEN 0 ELSE Len(slices[1]) + ByteCount(Tail(slices))

AllBytes(slice, byte) == \A i \in 1..Len(slice) : slice[i] = byte

\* the container g was packed from the text json and the payload bin, as C16 says
WellPacked(g, json, bin) ==
    LET json_pad == g[7]
        json_len == LE32Value(g[4])
        with_bin == Len(g) > 7
    IN  /\ Len(g) \in {7, 11}
        /\ ByteCount(SubSeq(g, 1, 3)) = 12
        /\ LE32Value(g[3]) = ByteCount(g)
        /\ ByteCount(g) = 12 + 8 + json_len + (IF with_bin THEN 8 + LE32Value(g[8]) ELSE 0)
        /\ json_len % 4 = 0
        /\ g[6] = json
        /\ json_len = Len(json) + Len(json_pad)
        /\ Len(json_pad) < 4
        /\ AllBytes(json_pad, SPACE)
        /\ with_bin =>
              /\ LE32Value(g[8]) % 4 = 0
              /\ g[10] = bin
              /\ LE32Value(g[8]) = Len(bin) + Len(g[11])
              /\ Len(g[11]) < 4
              /\ AllBytes(g[11], 0)

\* C16: the total-length field of the header equals the number of bytes produced,
\* 12 + 8 + padded JSON length (+ 8 + padded binary length when a binary chunk is
\* written); both chunk length fields are multiples of 4 and equal the payload
\* plus its padding, spaces for the JSON and zero bytes for the binary payload.
ThmC16_PackedLengths ==
    glb # None => WellPacked(glb, pack_json, pack_bin)

\* a container with both chunks, both padded
WitC16_BothChunksPadded ==
    /\ glb # None
    /\ Len(glb) = 11
    /\ Len(pack_json) = 5
    /\ Len(glb[7]) = 3
    /\ Len(pack_bin) = 6
    /\ Len(glb[11]) = 2
    /\ LE32Value(glb[3]) = 12 + 8 + 8 + 8 + 8

----------------------------------------------------------------------------
(* GLB export *)

\* the bucket holds vertex data: a position attribute with at least one vertex
HasVertexData(mesh) == mesh.positions # None /\ mesh.positions[1] # <<>>

Contributing == {k \in DOMAIN mesh_buckets : HasVertexData(mesh_buckets[k])}

\* the container g ends with a binary chunk
HasBinChunk(g) == Len(g) = 11 /\ g[9] = U32LE(CHUNK_BIN)

\* the container g is the header and one JSON chunk describing an empty scene
MinimalContainer(g, doc) ==
    /\ Len(g) = 7
    /\ g[1] = U32LE(GLB_MAGIC)
    /\ g[2] = U32LE(GLB_VERSION)
    /\ LE32Value(g[3]) = ByteCount(g)
    /\ g[5] = U32LE(CHUNK_JSON)
    /\ g[6] = "{\"asset\":{\"version\":\"2.0\",\"generator\":\"bevy_symbios\"},\"scene\":0,\"scenes\":[{\"name\":\"Empty\"}]}"
    /\ DOMAIN doc \cap {"meshes", "nodes", "accessors", "bufferViews", "buffers"} = {}
    /\ \A k \in 1..Len(doc.scenes) : "nodes" \notin DOMAIN doc.scenes[k]

\* C17: meshes_to_glb writes a binary chunk exactly when some bucket contributed
\* vertex data; when the bucket map is empty, or every bucket lacks positions or
\* has zero vertices, the output is the minimal container: header and one JSON
\* chunk whose scene has no meshes, nodes, accessors or buffers, and no binary chunk.
ThmC17_BinChunkIffVertexData ==
    glb # None =>
        /\ HasBinChunk(glb) <=> Contributing # {}
        /\ Contributing # {} =>
              /\ glb[10] = glb_log.bin_buffer
              /\ glb_log.bin_buffer # <<>>
              /\ Len(glb_log.doc.nodes) = Cardinality(Contributing)
        /\ Contributing = {} => MinimalContainer(glb, glb_log.doc)

\* two buckets, one without positions and one with zero vertices: minimal container
WitC17_BucketsWithoutVertices ==
    /\ glb # None
    /\ Cardinality(DOMAIN mesh_buckets) = 2
    /\ \E a, b \in DOMAIN mesh_buckets :
          /\ mesh_buckets[a].positions = None
          /\ mesh_buckets[b].positions = Some(<<>>)
    /\ Len(glb) = 7
    /\ ~HasBinChunk(glb)

\* the material entry built from MaterialSettings::default() for the id
DefaultEntry(id) ==
    [name |-> id,
     baseColorFactor |-> <<10000, 10000, 10000>>,
     metallicFactor |-> 0,
     roughnessFactor |-> 5000,
     emissiveFactor |-> <<F32Zero(1), F32Zero(1), F32Zero(1)>>]

\* C18: meshes_to_glb builds one material entry per bucket, in ascending material
\* id order; a bucket whose id is absent from the settings gets the entry of
\* MaterialSettings::default() (base colour 1,1,1; metallic 0; roughness 0.5;
\* emissive 0,0,0), and the export still returns a container.
ThmC18_MaterialPerBucketDefaultFallback ==
    glb # None =>
        LET ms == glb_log.gltf_materials
        IN  /\ Len(ms) = Cardinality(DOMAIN mesh_buckets)
            /\ {ms[k].name : k \in 1..Len(ms)} = DOMAIN mesh_buckets
            /\ \A j, k \in 1..Len(ms) : j < k => ms[j].name < ms[k].name
            /\ \A k \in 1..Len(ms) :
                  ms[k].name \notin DOMAIN material_settings => ms[k] = DefaultEntry(ms[k].name)
            /\ Contributing # {} => glb_log.doc.materials = ms
            /\ LE32Value(glb[3]) = ByteCount(glb)

\* buckets 0 and 5 with vertex data, settings for 0 and 1 only: entry 5 is the default
WitC18_UnknownIdBesideKnown ==
    /\ glb # None
    /\ DOMAIN mesh_buckets = {0, 5}
    /\ Contributing = {0, 5}
    /\ DOMAIN material_settings = {0, 1}
    /\ Len(glb_log.doc.materials) = 2
    /\ glb_log.doc.materials[1].baseColorFactor = <<2000, 8000, 2000>>
    /\ glb_log.doc.materials[2] = DefaultEntry(5)

\* C19 as stated: every emissive channel written lies in [0, 1].
CexC19_EmissiveWithinUnitRange ==
    (glb # None /\ Contributing # {}) =>
        \A k \in 1..Len(glb_log.doc.materials) : \A c \in 1..3 :
            /\ ~F32Lt(glb_log.doc.materials[k].emissiveFactor[c], F32Zero(1))
            /\ ~F32Lt(F32_ONE, glb_log.doc.materials[k].emissiveFactor[c])

----------------------------------------------------------------------------
(* OBJ export *)

\* the lines of the combined text with the given tag, in file order
LinesTagged(tag) == SelectSeq(obj[1], LAMBDA l : l.tag = tag)

\* the face lines written for the bucket, in file order
FacesOf(id) == SelectSeq(obj[1], LAMBDA l : l.tag = "f" /\ l.bucket = id)

\* the number of vertices of the bucket: the length of its position attribute
VertexCount(id) ==
    IF mesh_buckets[id].positions = None THEN 0 ELSE Len(mesh_buckets[id].positions[1])

RECURSIVE VerticesBefore(_)
\* the sum of the vertex counts of the buckets written before the k-th
VerticesBefore(k) ==
    IF k = 1 THEN 0 ELSE VerticesBefore(k - 1) + VertexCount(obj_log[k - 1].material_id)

\* the index buffer of the bucket, empty when it has none
LocalIndices(id) ==
    IF mesh_buckets[id].indices = None THEN <<>> ELSE mesh_buckets[id].indices[1].idx

\* C20: in meshes_to_obj the vertex offset starts at 0 and is advanced by each
\* bucket's vertex count after the bucket is written; every face index of a
\* bucket is its local 0-based index + 1 + the vertex counts of the buckets
\* written before it, so it names a `v` line (1-based) that the same bucket wrote.
ThmC20_FaceIndicesOffsetByEarlierBuckets ==
    obj # None =>
        /\ Len(obj_log) = Cardinality(DOMAIN mesh_buckets)
        /\ \A k \in 1..Len(obj_log) :
              LET id == obj_log[k].material_id
                  faces == FacesOf(id)
                  idx == LocalIndices(id)
              IN  /\ obj_log[k].vertex_offset = VerticesBefore(k)
                  /\ Len(faces) = Len(idx) \div 3
                  /\ \A t \in 1..Len(faces) : \A c \in 1..3 :
                        LET a == faces[t].value[c]
                        IN  /\ a = idx[3 * (t - 1) + c] + 1 + VerticesBefore(k)
                            /\ a \in 1..Len(LinesTagged("v"))
                            /\ LinesTagged("v")[a].bucket = id
                            /\ LinesTagged("v")[a].value = mesh_buckets[id].positions[1][idx[3 * (t - 1) + c] + 1]

\* two buckets with faces: the faces of the second name `v` lines after the first's
WitC20_SecondBucketOffset ==
    /\ obj # None
    /\ Len(obj_log) = 2
    /\ mesh_buckets[obj_log[1].material_id] = MeshQuad
    /\ mesh_buckets[obj_log[2].material_id] = MeshBare
    /\ obj_log[2].vertex_offset = 4
    /\ Len(FacesOf(obj_log[2].material_id)) = 1
    /\ FacesOf(obj_log[2].material_id)[1].value = <<7, 6, 5>>
    /\ FacesOf(obj_log[2].material_id)[1].text = "f 7 6 5"

\* the lines written by the mesh_to_obj call for the bucket, in file order
BlockOf(id) == SelectSeq(obj[1], LAMBDA l : l.bucket = id)

\* the number of values of an attribute, 0 when it is absent
AttrLen(a) == IF a = None THEN 0 ELSE Len(a[1])

\* `x y z` for whole components
Triple(v) == ToString(v[1]) \o " " \o ToString(v[2]) \o " " \o ToString(v[3])

\* a vertex reference of a face: index, two slashes, the same index
VertexAndNormal(a) == ToString(a) \o "//" \o ToString(a)

\* the block is what C21 (as amended) says mesh_to_obj writes for the mesh
WellFormedBlock(block, mesh, name, offset) ==
    LET np == AttrLen(mesh.positions)
        nn == AttrLen(mesh.normals)
        idx == IF mesh.indices = None THEN <<>> ELSE mesh.indices[1].idx
        nf == Len(idx) \div 3
        ref(i) == idx[i] + 1 + offset
    IN  /\ Len(block) = 1 + np + nn + nf
        /\ block[1].text = "o " \o name
        /\ \A k \in 1..np : block[1 + k].text = "v " \o Triple(mesh.positions[1][k])
        /\ \A k \in 1..nn : block[1 + np + k].text = "vn " \o Triple(mesh.normals[1][k])
        /\ \A t \in 1..nf :
              block[1 + np + nn + t].text =
                  IF mesh.normals # None
                  THEN "f " \o VertexAndNormal(ref(3 * t - 2)) \o " " \o VertexAndNormal(ref(3 * t - 1))
                            \o " " \o VertexAndNormal(ref(3 * t))
                  ELSE "f " \o ToString(ref(3 * t - 2)) \o " " \o ToString(ref(3 * t - 1))
                            \o " " \o ToString(ref(3 * t))

\* C21 as stated: with normals present every face line has the form
\* `f a/na b/nb c/nc`, one slash between the vertex index and a normal index.
CexC21_FaceSingleSlash ==
    obj # None =>
        \A k \in 1..Len(obj[1]) :
            (obj[1][k].tag = "f" /\ mesh_buckets[obj[1][k].bucket].normals # None) =>
                \E na, nb, nc \in 1..Len(obj[1]) :
                    obj[1][k].text =
                        "f " \o ToString(obj[1][k].value[1]) \o "/" \o ToString(na)
                        \o " " \o ToString(obj[1][k].value[2]) \o "/" \o ToString(nb)
                        \o " " \o ToString(obj[1][k].value[3]) \o "/" \o ToString(nc)

\* C21 (amended): mesh_to_obj writes one `o <name>` line, one `v x y z` line per
\* position, one `vn x y z` line per normal, then one face line per complete
\* index triple: `f a//a b//b c//c` when normals are present and `f a b c`
\* when they are absent, a = index + 1 + vertex_offset.
ThmC21_ObjLines ==
    obj # None =>
        \A k \in 1..Len(obj_log) :
            WellFormedBlock(BlockOf(obj_log[k].material_id),
                            mesh_buckets[obj_log[k].material_id],
                            "tree_mat" \o ToString(obj_log[k].material_id),
                            obj_log[k].vertex_offset)

\* a triangle with normals written after a bucket of three vertices
WitC21_FaceWithNormalsAtOffset ==
    /\ obj # None
    /\ Len(obj_log) = 2
    /\ mesh_buckets[obj_log[1].material_id] = MeshBare
    /\ mesh_buckets[obj_log[2].material_id] = MeshTri
    /\ BlockOf(obj_log[1].material_id)[5].text = "f 3 2 1"
    /\ Len(BlockOf(obj_log[1].material_id)) = 5
    /\ BlockOf(obj_log[2].material_id)[4].text = "v 0 2 -1"
    /\ BlockOf(obj_log[2].material_id)[8].text = "f 4//4 5//5 6//6"

----------------------------------------------------------------------------
(* The rings of a bucket *)

\* the rings the build added to bucket m, in order
RingsOf(log, m) == SelectSeq(log, LAMBDA r : r.mat = m)

----------------------------------------------------------------------------
(* Fold-back strands *)

\* the filtered points of strand s fold back at position i: the point before
\* and the point after are at the same place
FoldsAt(s, i) ==
    LET f == FilteredOf(s)
    IN  /\ 1 < i /\ i < Len(f)
        /\ skeleton[s][f[i - 1]].position = skeleton[s][f[i + 1]].position

\* the strand has a fold, and every inner point of it is one
FoldBackStrand(s) ==
    /\ Len(FilteredOf(s)) >= 3
    /\ \A i \in 2..(Len(FilteredOf(s)) - 1) : FoldsAt(s, i)

\* the direction in which the strand arrives at filtered position i (leaves, for i = 1)
Arrival(s, i) ==
    LET f == FilteredOf(s)
        j == IF i = 1 THEN 2 ELSE i
    IN  VecSub(skeleton[s][f[j]].position, skeleton[s][f[j - 1]].position)

\* the rotation that takes +Y to the direction d on the Y axis, a half turn
\* about Z when d points down
FrameFor(d) == IF d[2] > 0 THEN <<1, 1, 1>> ELSE <<-1, -1, 1>>

\* a rotation of the model without NaN: a proper diagonal rotation
FiniteRotation(q) ==
    /\ DOMAIN q = 1..3
    /\ \A k \in 1..3 : q[k] \in {1, -1}
    /\ q[1] * q[2] * q[3] = 1

\* C23: a strand that folds back 180 degrees yields finite positions and normals.
\* At every fold the frame follows the incoming direction (the miter sum
\* vanishes), and where the next direction is opposite to the frame's forward
\* axis the rotation is the explicit half turn about a perpendicular axis.
ThmC23_FoldBackFinite ==
    built =>
        \A e \in 1..Len(ring_log) :
            LET r == ring_log[e]
                p == buckets[r.mat].positions
                n == buckets[r.mat].normals
            IN  FoldBackStrand(r.strand) =>
                    \A k \in (r.start + 1)..(r.start + resolution + 1) :
                        /\ FiniteRotation(p[k].rotation)
                        /\ p[k].rotation = FrameFor(Arrival(r.strand, r.fpos))
                        /\ n[k].rotation = p[k].rotation
                        /\ p[k].center = skeleton[r.strand][FilteredOf(r.strand)[r.fpos]].position
                        /\ \A c \in 1..3 : p[k].center[c] # NAN
                        /\ p[k].radius # NAN

\* A -> B -> A built: the ring at B keeps the frame of A, the last ring is turned
WitC23_UpAndBack ==
    /\ built
    /\ Len(skeleton) = 1
    /\ Len(ring_log) >= 3
    /\ Len(FilteredOf(1)) = 3
    /\ FoldsAt(1, 2)
    /\ \E a, b, c \in 1..Len(ring_log) :
          /\ ring_log[a].fpos = 1 /\ ring_log[b].fpos = 2 /\ ring_log[c].fpos = 3
          /\ buckets[ring_log[a].mat].positions[ring_log[a].start + 1].rotation = <<1, 1, 1>>
          /\ buckets[ring_log[b].mat].positions[ring_log[b].start + 1].rotation = <<1, 1, 1>>
          /\ buckets[ring_log[c].mat].positions[ring_log[c].start + 1].rotation = <<-1, -1, 1>>

----------------------------------------------------------------------------
(* connect_rings *)

\* the connect_rings calls made on bucket m, in order
ConnectsOf(m) == SelectSeq(seg_log, LAMBDA g : g.mat = m)

\* C24: connect_rings(b, t, R) appends exactly 6R indices: for k = 0..R-1 in
\* order the triangle (b+k, t+k, b+k+1) and then (b+k+1, t+k, t+k+1); every
\* index lies in one of the two rings, and the vertex data stays as add_ring
\* wrote it.
ThmC24_ConnectRings ==
    built =>
        \A m \in DOMAIN buckets :
            LET calls == ConnectsOf(m)
                ix == buckets[m].indices
                R == resolution
            IN  /\ Len(ix) = 6 * R * Len(calls)
                /\ \A c \in 1..Len(calls) : \A k \in 0..(R - 1) :
                      LET b == calls[c].bottom
                          t == calls[c].top
                          o == 6 * R * (c - 1) + 6 * k
                      IN  /\ <<ix[o + 1], ix[o + 2], ix[o + 3]>> = <<b + k, t + k, b + k + 1>>
                          /\ <<ix[o + 4], ix[o + 5], ix[o + 6]>> = <<b + k + 1, t + k, t + k + 1>>
                          /\ \A j \in 1..6 : ix[o + j] \in (b..(b + R)) \cup (t..(t + R))
                /\ Len(buckets[m].positions) = Len(RingsOf(ring_log, m)) * (R + 1)
                /\ Len(buckets[m].normals) = Len(buckets[m].positions)
                /\ Len(buckets[m].colors) = Len(buckets[m].positions)
                /\ Len(buckets[m].uvs) = Len(buckets[m].positions)
                /\ \A e \in 1..Len(RingsOf(ring_log, m)) : \A k \in 0..R :
                      LET r == RingsOf(ring_log, m)[e]
                      IN  /\ buckets[m].positions[r.start + k + 1].center = skeleton[r.strand][r.point].position
                          /\ buckets[m].uvs[r.start + k + 1][1] = Rat(k, R)

\* resolution 3, two connected segments of one bucket: the second joins rings 4 and 8
WitC24_SecondSegmentOfBucket ==
    /\ built
    /\ resolution = 3
    /\ 1 \in DOMAIN buckets
    /\ Len(ConnectsOf(1)) = 2
    /\ ConnectsOf(1)[2].bottom = 4
    /\ ConnectsOf(1)[2].top = 8
    /\ SubSeq(buckets[1].indices, 19, 24) = <<4, 8, 5, 5, 8, 9>>
    /\ Len(buckets[1].indices) = 36

----------------------------------------------------------------------------
(* Layout of the binary buffer *)

\* the bytes per element of an accessor type
ElementSize(type) ==
    CASE type = "VEC3" -> 12
      [] type = "VEC4" -> 16
      [] type = "SCALAR" -> 4

\* the meshes of the buckets that are written, in ascending id order
WrittenIds == SelectSeq(glb_log.mat_ids, LAMBDA k : HasVertexData(mesh_buckets[k]))

\* C25: the buffer views are contiguous in emission order from byte 0, every
\* byteOffset and byteLength is a multiple of 4, the last view ends at
\* buffers[0].byteLength, accessor k references view k, and every index takes
\* 4 bytes, also when the mesh holds 16-bit indices.
ThmC25_BufferViewsContiguous ==
    (glb # None /\ Contributing # {}) =>
        LET doc == glb_log.doc
            bv == doc.bufferViews
            ac == doc.accessors
        IN  /\ Len(bv) >= 1
            /\ bv[1].byteOffset = 0
            /\ \A k \in 1..(Len(bv) - 1) : bv[k + 1].byteOffset = bv[k].byteOffset + bv[k].byteLength
            /\ \A k \in 1..Len(bv) : bv[k].byteOffset % 4 = 0 /\ bv[k].byteLength % 4 = 0
            /\ bv[Len(bv)].byteOffset + bv[Len(bv)].byteLength = doc.buffers[1].byteLength
            /\ doc.buffers[1].byteLength = Len(glb[10])
            /\ Len(ac) = Len(bv)
            /\ \A k \in 1..Len(ac) :
                  /\ ac[k].bufferView = k - 1
                  /\ bv[k].byteLength = ElementSize(ac[k].type) * ac[k].count
            /\ \A w \in 1..Len(WrittenIds) :
                  LET mesh == mesh_buckets[WrittenIds[w]]
                      prim == doc.meshes[w]
                  IN  mesh.indices # None =>
                        LET view == bv[prim.indices[1] + 1]
                            idx == mesh.indices[1].idx
                        IN  /\ view.byteLength = 4 * Len(idx)
                            /\ \A i \in 1..Len(idx) :
                                  LE32Value(SubSeq(glb[10], view.byteOffset + 4 * i - 3,
                                                   view.byteOffset + 4 * i)) = idx[i]

\* a mesh with 16-bit indices written after a mesh with all attributes
WitC25_SixViewsWithU16Indices ==
    /\ glb # None
    /\ Len(WrittenIds) = 2
    /\ mesh_buckets[WrittenIds[1]] = MeshTri
    /\ mesh_buckets[WrittenIds[2]] = MeshBare
    /\ Len(glb_log.doc.bufferViews) = 6
    /\ glb_log.doc.bufferViews[6] = [byteOffset |-> 168, byteLength |-> 16, target |-> 34963]
    /\ glb_log.doc.buffers[1].byteLength = 184

\* C26 as stated: every node's mesh index is a position of the written meshes
\* array and names the mesh of the node's material id, and every primitive's
\* material index names the material entry of that id, also when buckets are
\* skipped.
CexC26_NodeAndMaterialIndices ==
    (glb # None /\ Contributing # {}) =>
        LET doc == glb_log.doc
        IN  /\ \A k \in 1..Len(doc.nodes) :
                  /\ doc.nodes[k].mesh \in 0..(Len(doc.meshes) - 1)
                  /\ doc.meshes[doc.nodes[k].mesh + 1].name = doc.nodes[k].name
            /\ \A k \in 1..Len(doc.meshes) :
                  /\ doc.meshes[k].material \in 0..(Len(doc.materials) - 1)
                  /\ doc.materials[doc.meshes[k].material + 1].name = doc.meshes[k].name


----------------------------------------------------------------------------
(* Collider segments are never degenerate *)

\* C27: every segment that reaches collider generation joins two consecutive
\* kept points, which are more than 0.001 apart (the f32 length is not below the
\* f32 nearest to 0.001, which is above 0.001); so no segment is skipped for a
\* length below 0.0001 and no collider is shorter than that; with threshold 0
\* and radii that are not negative every filtered segment gets its collider.
ThmC27_NoDegenerateSegment ==
    parts_called =>
       /\ \A x \in ColliderSegments :
             /\ ExceedsEpsilon(skeleton[x[1]][x[2]].position, skeleton[x[1]][x[3]].position)
             /\ ~F32Lt(CSegLength(x), F32Units(10 * LEN_EPS))
             /\ ~F32Lt(CSegLength(x), F32_LEN_EPS)
       /\ \A i \in 1..Len(parts) : ~F32Lt(parts[i].length, F32_LEN_EPS)
       /\ (/\ PartsMinRadius = 0
           /\ \A s \in 1..Len(skeleton) : \A j \in 1..Len(skeleton[s]) :
                  skeleton[s][j].radius >= 0)
              => /\ Len(parts) = Cardinality(ColliderSegments)
                 /\ {Emitted(i) : i \in 1..Len(parts)} = ColliderSegments

\* threshold 0: a strand of four points lost one to the filter and gave two colliders
WitC27_DroppedPointTwoColliders ==
    /\ parts_called
    /\ PartsMinRadius = 0
    /\ Len(parts) = 2
    /\ \E i \in 1..Len(cfilt_log) :
          /\ Len(skeleton[cfilt_log[i].strand]) = 4
          /\ Len(cfilt_log[i].filtered) = 3


----------------------------------------------------------------------------
(* Order of the rings in a bucket *)

\* the add_ring calls made for filtered point number fpos of strand s
RingsOfPoint(s, fpos) ==
    {j \in 1..Len(ring_log) : ring_log[j].strand = s /\ ring_log[j].fpos = fpos}

\* all segments of the filtered strand f of strand s have material m
OneMaterial(s, f, m) == \A k \in 1..(Len(f) - 1) : skeleton[s][f[k]].material_id = m

\* no strand before s put a ring into bucket m
EmptyBefore(s, m) == \A j \in 1..Len(ring_log) : ring_log[j].mat = m => ring_log[j].strand >= s

\* C28: the start indices add_ring returns on one bucket grow strictly over the
\* build, across strands; for a strand of one material that finds its bucket
\* empty, filtered point i (from 0) has one ring, at vertex indices
\* [i * (resolution + 1), (i + 1) * (resolution + 1)) of the bucket.
ThmC28_RingOrder ==
    built =>
       /\ \A i, j \in 1..Len(ring_log) :
             (i < j /\ ring_log[i].mat = ring_log[j].mat)
                => ring_log[i].start < ring_log[j].start
       /\ \A e \in Range(filt_log) :
             LET s == e.strand
                 f == e.filtered
             IN  \A m \in DOMAIN buckets :
                    (Len(f) >= 2 /\ OneMaterial(s, f, m) /\ EmptyBefore(s, m)) =>
                       \A i \in 0..(Len(f) - 1) :
                          /\ Cardinality(RingsOfPoint(s, i + 1)) = 1
                          /\ \A j \in RingsOfPoint(s, i + 1) :
                                /\ ring_log[j].mat = m
                                /\ ring_log[j].start = i * (resolution + 1)
                          /\ (i + 1) * (resolution + 1) <= Len(buckets[m].positions)
                          /\ \A k \in 1..(resolution + 1) :
                                buckets[m].positions[i * (resolution + 1) + k].center
                                   = skeleton[s][f[i + 1]].position

\* resolution 4: a strand of four kept points and one material filled its bucket
\* with four rings, the last at vertex indices 15..19
WitC28_FourRingsInOrder ==
    /\ built
    /\ resolution = 4
    /\ \E e \in Range(filt_log) : \E m \in DOMAIN buckets :
          /\ Len(e.filtered) = 4
          /\ OneMaterial(e.strand, e.filtered, m)
          /\ Len(buckets[m].positions) = 20
          /\ \E j \in RingsOfPoint(e.strand, 4) : ring_log[j].start = 15


----------------------------------------------------------------------------
(* Dropped points have no influence *)

\* the points the filter logged in `log` left out: <<strand, position in strand>>
DroppedIn(log) ==
    UNION {{<<e.strand, j>> : j \in (1..Len(skeleton[e.strand])) \ Range(e.filtered)} :
              e \in Range(log)}

\* p with one of radius, colour, material_id, uv_scale and rotation changed, or
\* all five
Alterations(p) ==
    {[p EXCEPT !.radius = @ + 15],
     [p EXCEPT !.color = <<0, 0, 0, 1>>],
     [p EXCEPT !.material_id = 7],
     [p EXCEPT !.uv_scale = @ + 3],
     [p EXCEPT !.rotation = <<-1, -1, 1>>],
     [p EXCEPT !.radius = @ + 15, !.color = <<0, 0, 0, 1>>, !.material_id = 7,
               !.uv_scale = @ + 3, !.rotation = <<-1, -1, 1>>]}

\* the skeleton with point x replaced by q
Replaced(x, q) == [skeleton EXCEPT ![x[1]][x[2]] = q]

\* the material ids of the kept points that start a segment
KeptStartMaterials == {StartPoint(x).material_id : x \in SegmentStarts}

\* C29: a point dropped by the filter has no influence: with its radius, colour,
\* material_id, uv_scale or rotation changed the build gives the same buckets and
\* build_parts the same colliders; every bucket has the material of a kept point;
\* a segment that spans dropped points has the material of the kept point that
\* starts it, a bottom ring of that point's radius, V growing by that point's
\* uv_scale, and a collider radius that is the mean of its two kept end points.
ThmC29_DroppedPointsIgnored ==
    /\ built =>
          /\ \A x \in DroppedIn(filt_log) :
                \A q \in Alterations(skeleton[x[1]][x[2]]) :
                   BuildState(<<>>, Replaced(x, q), resolution).buckets = buckets
          /\ DOMAIN buckets \subseteq KeptStartMaterials
          /\ \A i \in 1..Len(seg_log) :
                LET e == seg_log[i]
                    kept == skeleton[e.strand][e.from]
                    ends == <<kept, skeleton[e.strand][e.to]>>
                IN  e.to > e.from + 1 =>
                       /\ e.mat = kept.material_id
                       /\ \A k \in 1..(resolution + 1) :
                             buckets[e.mat].positions[e.bottom + k].radius = kept.radius
                       /\ buckets[e.mat].uvs[e.top + 1][2]
                             = RatAdd(buckets[e.mat].uvs[e.bottom + 1][2],
                                      RatMul(RatMul(Rat(SegLength(<<e.strand, e.from, e.to>>),
                                                        PosScale),
                                                    SegmentFactor(ends, 1)),
                                             <<kept.uv_scale, 1>>))
    /\ parts_called =>
          /\ \A x \in DroppedIn(cfilt_log) :
                \A q \in Alterations(skeleton[x[1]][x[2]]) :
                   BuildPartsState(Replaced(x, q), PartsMinRadius).colliders = parts
          /\ \A i \in 1..Len(parts) :
                LET e == cseg_log[i]
                IN  e.to > e.from + 1 =>
                       parts[i].radius
                          = AvgRadius(skeleton[e.strand][e.from], skeleton[e.strand][e.to])

\* three points, the middle one dropped: its material got no bucket, its radius
\* and uv_scale differ from the first point's, and the one segment and the one
\* collider span it
WitC29_MiddlePointDropped ==
    /\ built
    /\ parts_called
    /\ Len(skeleton) = 1
    /\ Len(skeleton[1]) = 3
    /\ DroppedIn(filt_log) = {<<1, 2>>}
    /\ DroppedIn(cfilt_log) = {<<1, 2>>}
    /\ skeleton[1][2].material_id \notin DOMAIN buckets
    /\ skeleton[1][2].radius # skeleton[1][1].radius
    /\ skeleton[1][2].uv_scale # skeleton[1][1].uv_scale
    /\ Len(seg_log) = 1 /\ seg_log[1].from = 1 /\ seg_log[1].to = 3
    /\ Len(parts) = 1 /\ cseg_log[1].from = 1 /\ cseg_log[1].to = 3


----------------------------------------------------------------------------
(* The mesh builder and the collider generator segment alike *)

NonNegativeRadii ==
    \A s \in 1..Len(skeleton) : \A j \in 1..Len(skeleton[s]) : skeleton[s][j].radius >= 0

RECURSIVE SumOver(_, _)
\* the sum of f over the finite set S
SumOver(S, f) ==
    IF S = {} THEN 0
    ELSE LET x == CHOOSE y \in S : TRUE
         IN  f[x] + SumOver(S \ {x}, f)

\* sum over the buckets of index count / (6 * resolution)
MeshSegmentCount ==
    SumOver(DOMAIN buckets,
            [m \in DOMAIN buckets |-> Len(buckets[m].indices) \div (6 * resolution)])

\* C30: for a skeleton with non-negative radii and collider threshold 0,
\* build_parts returns as many colliders as the meshes hold segments, and the k-th
\* collider spans the same two points of the same strand as the k-th segment the
\* mesh builder connected.
ThmC30_SameSegmentation ==
    (built /\ parts_called /\ PartsMinRadius = 0 /\ NonNegativeRadii) =>
       /\ Len(parts) = MeshSegmentCount
       /\ Len(parts) = Len(seg_log)
       /\ \A k \in 1..Len(parts) :
             /\ cseg_log[k].strand = seg_log[k].strand
             /\ cseg_log[k].from = seg_log[k].from
             /\ cseg_log[k].to = seg_log[k].to
             /\ parts[k].length = CSegLength(<<seg_log[k].strand, seg_log[k].from,
                                               seg_log[k].to>>)

\* two strands of different materials: one segment in each of two buckets, and
\* two colliders, the first of the first strand
WitC30_TwoStrandsTwoBuckets ==
    /\ built
    /\ parts_called
    /\ PartsMinRadius = 0
    /\ NonNegativeRadii
    /\ Len(skeleton) = 2
    /\ Cardinality(DOMAIN buckets) = 2
    /\ MeshSegmentCount = 2
    /\ Len(parts) = 2
    /\ cseg_log[1].strand = 1 /\ cseg_log[2].strand = 2

====
